---- MODULE Spec2Model ----
(***************************************************************************)
(* Recommendation engine: candidate selection and ranking pipeline.        *)
(*                                                                         *)
(* The store (products table, tag_graph table) is the state the request    *)
(* path reads; one recommendation request walks through the handler of     *)
(* POST /api/recommendations and the steps of getRecommendations           *)
(* (recommendation-service.ts), with the pooled connections it holds and   *)
(* the storage errors it can meet.  One precomputation request walks       *)
(* through the handler of POST /api/precompute and, await by await,        *)
(* through runPrecomputation (precompute-service.ts), which writes the     *)
(* store and the process_tracker table, on a products.json of one batch    *)
(* and on files of more than one batch.                                    *)
(*                                                                         *)
(* Numbers: scores are kept in hundredths (1.0 = 100), so the SQL          *)
(* expression merchant_score * 0.6 + purchase_score * 0.4 is               *)
(* merchant_score * 6 + purchase_score * 4 in thousandths.  Prices are     *)
(* whole amounts.                                                          *)
(***************************************************************************)
EXTENDS Integers, Sequences, FiniteSets, TLC

VARIABLES
    products,          \* products table: id -> row
    tag_graph,         \* tag_graph table: tag_name -> children
    pc,                \* position of the request inside getRecommendations
    shopId,            \* request argument shop_id
    productIds,        \* request argument product_ids
    sourceProducts,    \* rows returned by getProductsByIds
    relatedTags,       \* result of getRelatedTags
    candidateProducts, \* rows returned by getCandidateProductsByTags
    oracle,            \* what the ranking oracle call produced
    path,              \* which branch produced the result
    result,            \* { upsell, crosssell } returned to the caller
    error,             \* error thrown to the caller of getRecommendations
    body,              \* shape of the body POST /api/recommendations received
    http,              \* status of the HTTP response, 0 while there is none
    held,              \* pooled connections the request holds
    acquired,          \* pooled connections the request has acquired so far
    fault,             \* the storage operation of the request that raised an error
    process_tracker,   \* process_tracker table: id -> row
    preHttp,           \* status of the response of POST /api/precompute, 0 while none
    run,               \* the precomputation run started by that request
    logged,            \* the run's error as the handler's .catch logged it
    server,            \* the server process: "up" or "crashed"
    products_json,     \* src/data/products.json, the file a run loads
    env,               \* process.env: the variables backend resolution reads
    apiConfig,         \* what getRecommendationsAPIConfig returned or threw
    rankCalls,         \* calls of the ranking oracle made by the request
    graphCalls,        \* calls of the oracle made by the tag-graph build of the run
    poolSize,          \* the most clients the pool hands out
    requests,          \* concurrent recommendation requests: position and clients held
    runs,              \* concurrent precomputation runs: position, shop and tracker id
    recommendation_type, \* the recommendation_type field of the request body
    proc               \* the server process: shutdown flags, pool.end() calls, exit code

\* the state outside the request and the precomputation run
envVars == << env, apiConfig >>

callVars == << rankCalls, graphCalls >>

poolVars == << poolSize, requests >>

auxVars == << envVars, callVars, poolVars, runs, recommendation_type, proc >>

runVars == << process_tracker, preHttp, run, logged, server, products_json >>

vars == << products, tag_graph, pc, shopId, productIds, sourceProducts,
           relatedTags, candidateProducts, oracle, path, result, error,
           body, http, held, acquired, fault,
           process_tracker, preHttp, run, logged, server, products_json, auxVars >>

reqVars == << pc, shopId, productIds, sourceProducts, relatedTags,
              candidateProducts, oracle, path, result, error,
              body, http, held, acquired, fault >>

preVars == << process_tracker, preHttp, run, logged, server, products_json, auxVars >>

\* the state of the request, the run and the store
coreVars == << products, tag_graph, reqVars,
               process_tracker, preHttp, run, logged, server, products_json >>

\* the state the concurrent requests leave alone
poolRest == << coreVars, envVars, callVars, runs, recommendation_type, proc >>

\* the state the concurrent runs leave alone
runsRest == << products, tag_graph, reqVars, preHttp, run, logged, server,
              products_json, envVars, callVars, poolVars, recommendation_type, proc >>

storeVars == << products, tag_graph >>

argVars == << shopId, productIds, body >>

connVars == << held, acquired >>

-----------------------------------------------------------------------------
(* Bounds of the model *)

\* total number of ids the oracle puts in its two lists together
MaxOracleIds == 2
\* how many eligible rows beyond the candidate query limit a large catalog holds
MaxExtra == 1
\* how many products beyond one batch a large products.json holds
MaxBatchExtra == 1

(* Program constants *)

\* limit passed to getCandidateProductsByTags by getRecommendations
CandidateQueryLimit == 100
\* config.limits.candidate_pool_size
candidate_pool_size == 70
\* config.limits.final_recommendations
final_recommendations == 10
\* candidates.slice(0, 20) of the fallback
FallbackCandidates == 20
\* maxTags passed to getRelatedTags
RelatedTagsMax == 50

-----------------------------------------------------------------------------
(* Sequence helpers *)

Min(a, b) == IF a < b THEN a ELSE b

Slice(s, n) == SubSeq(s, 1, Min(n, Len(s)))

SeqToSet(s) == { s[i] : i \in DOMAIN s }

RECURSIVE Flatten(_)
Flatten(ss) == IF ss = << >> THEN << >> ELSE Head(ss) \o Flatten(Tail(ss))

Reverse(s) == [ i \in 1..Len(s) |-> s[Len(s) + 1 - i] ]

-----------------------------------------------------------------------------
(* The store *)

Shops == { "s1", "s2" }

\* the step function with its thresholds included in the upper step
MerchantScoreOf_Inclusive(stock) ==
    IF stock >= 50 THEN 100 ELSE IF stock >= 20 THEN 70 ELSE IF stock >= 0 THEN 40 ELSE 10

\* computeProductScores: merchant_score is a step function of stock
MerchantScoreOf(stock) ==
    IF stock > 50 THEN 100
    ELSE IF stock > 20 THEN 70
    ELSE IF stock > 0 THEN 40
    ELSE 10

\* v.inventory_quantity || 0: a variant without the field counts as 0
QuantityOf(v) ==
    IF "inventory_quantity" \in DOMAIN v THEN v.inventory_quantity ELSE 0

\* calculateStock: sum of the variants' inventory_quantity
RECURSIVE calculateStock(_)
calculateStock(variants) ==
    IF variants = << >> THEN 0
    ELSE QuantityOf(Head(variants)) + calculateStock(Tail(variants))

\* A catalog product's variants: ids are unique over the catalog, prices step
\* up with the size, the whole inventory sits on the first variant.
VariantsOf(id, n, price, stock) ==
    [ k \in 1..n |-> [ id |-> id * 10 + k,
                       price |-> price + 5 * (k - 1),
                       inventory_quantity |-> IF k = 1 THEN stock ELSE 0 ] ]

\* A products row as saveProductsWithData and computeProductScores leave it.
Row(id, shop, status, stock, tag, category, price, purchase, n) ==
    [ id |-> id, shop_id |-> shop, status |-> status,
      stock |-> calculateStock(VariantsOf(id, n, price, stock)),
      tags |-> tag, category |-> category, price |-> price,
      variants |-> VariantsOf(id, n, price, stock), embedding |-> "vector",
      merchant_score |-> MerchantScoreOf(stock), purchase_score |-> purchase ]

\* The kinds of row a small catalog mixes: eligible rows, and rows that fail
\* exactly one condition of the candidate query.
RowKinds == { "sameCategory", "otherCategory", "sourceTag", "draft",
              "soldOut", "otherShop", "unrelatedTag" }

KindRow(id, kind) ==
    CASE kind = "sameCategory"  -> Row(id, "s1", "active", 60, "jeans", "tops", 20, 50, 6)
      [] kind = "otherCategory" -> Row(id, "s1", "active", 25, "sneakers", "shoes", 45, 90, 6)
      [] kind = "sourceTag"     -> Row(id, "s1", "active", 20, "t-shirt", "tops", 35, 50, 1)
      [] kind = "draft"         -> Row(id, "s1", "draft", 60, "jeans", "tops", 20, 95, 2)
      [] kind = "soldOut"       -> Row(id, "s1", "active", 0, "jeans", "tops", 20, 95, 2)
      [] kind = "otherShop"     -> Row(id, "s2", "active", 60, "jeans", "tops", 20, 95, 2)
      [] kind = "unrelatedTag"  -> Row(id, "s1", "active", 60, "hat", "tops", 20, 95, 2)

\* Small catalogs: product 1 is the product a customer looks at, products 2
\* and 3 vary, product 4 is an eligible product of another category.
SmallStores ==
    { (1 :> Row(1, "s1", "active", 30, "t-shirt", "tops", 30, 60, 1))
      @@ (2 :> KindRow(2, k2)) @@ (3 :> KindRow(3, k3))
      @@ (4 :> KindRow(4, "otherCategory")) :
        k2 \in { "sameCategory", "sourceTag" }, k3 \in RowKinds }

\* Large catalogs: more eligible rows than the candidate query returns.
LargeRow(i) ==
    IF i = 1 THEN Row(1, "s1", "active", 30, "t-shirt", "tops", 30, 60, 1)
    ELSE Row(i, "s1", "active", 1 + (i % 4) * 20,
             IF i % 2 = 0 THEN "jeans" ELSE "sneakers",
             IF i % 3 = 0 THEN "tops" ELSE "shoes",
             10 + 10 * (i % 5), 50 + ((i * 7) % 50), IF i % 8 = 3 THEN 2 ELSE 1)

LargeStores ==
    { [ i \in 1..(CandidateQueryLimit + 1 + k) |-> LargeRow(i) ] : k \in 1..MaxExtra }

\* tag_graph tables: what a tag graph build can have saved
TagGraphs ==
    { ("t-shirt" :> << "jeans", "sneakers" >>) @@ ("jeans" :> << "sneakers", "t-shirt" >>),
      ("t-shirt" :> << "t-shirt", "jeans" >>),
      << >> }

\* The stores a request can meet: every small catalog with every tag graph
SmallStoreStates ==
    { [ products |-> st, tag_graph |-> g ] : st \in SmallStores, g \in TagGraphs }

\* A tag graph whose rows for t-shirt and jeans list more than
\* RelatedTagsMax distinct tags together, some of them in both rows
WideTagGraph ==
    ("t-shirt" :> (<< "jeans", "sneakers" >> \o [ i \in 1..33 |-> "c" \o ToString(i) ]))
    @@ ("jeans" :> ([ i \in 1..4 |-> "c" \o ToString(29 + i) ] \o << "t-shirt" >>
                    \o [ i \in 1..20 |-> "d" \o ToString(i) ]))

\* ... the small catalogs with the wide tag graph
WideStoreStates ==
    { [ products |-> st, tag_graph |-> WideTagGraph ] : st \in SmallStores }

\* ... and the large catalogs with the first tag graph
LargeStoreStates ==
    { [ products |-> st,
        tag_graph |-> ("t-shirt" :> << "jeans", "sneakers" >>)
                      @@ ("jeans" :> << "sneakers", "t-shirt" >>) ] :
        st \in LargeStores }

\* an id no catalog holds
MissingId == CandidateQueryLimit * 10

\* product_ids of the requests
RequestIds == { << 1 >>, << 1, 2 >>, << MissingId >>, << 2, MissingId >> }

\* The bodies POST /api/recommendations receives.  shop_id is there or not;
\* product_ids is absent (or null), a value that is no array, the empty
\* array, an array with an element that is no integer ("abc", 1.5) next to
\* the integers ids, or an array of integers.
RequestBodies ==
    { [ shop_id |-> TRUE, shop |-> shop, product_ids |-> "integers", ids |-> ids ] :
        shop \in Shops, ids \in RequestIds }
      \cup { [ shop_id |-> FALSE, shop |-> "", product_ids |-> "integers", ids |-> << 1 >> ] }
      \cup { [ shop_id |-> TRUE, shop |-> "s1", product_ids |-> k, ids |-> << >> ] :
               k \in { "absent", "notArray", "empty" } }
      \cup { [ shop_id |-> TRUE, shop |-> "s1", product_ids |-> "nonInteger", ids |-> << 1 >> ] }

NoBody == [ shop_id |-> FALSE, product_ids |-> "absent" ]

\* !shop_id || !product_ids || !Array.isArray(product_ids) || product_ids.length === 0
BadRequest(b) ==
    \/ ~b.shop_id
    \/ b.product_ids = "absent"
    \/ b.product_ids = "notArray"
    \/ b.product_ids = "empty"

\* WHERE id = ANY($1::bigint[]): the cast raises an error on an element that
\* is not the text of an integer
CastsToBigint(kind) == kind # "nonInteger"

\* the message of an error raised by the pool or by a query
StorageError == "storage error"

-----------------------------------------------------------------------------
(* Storage queries *)

\* The ids of a table in ascending order
Ascending(ids) ==
    LET least == CHOOSE x \in ids : \A y \in ids : x <= y
        most  == CHOOSE x \in ids : \A y \in ids : x >= y
        Held(id) == id \in ids
    IN  IF ids = {} THEN << >>
        ELSE SelectSeq([ i \in 1..(most - least + 1) |-> least + i - 1 ], Held)

\* The order in which a query without ORDER BY meets the rows of a table is
\* the storage engine's: ascending or descending id here.
ScanOrder(table, descending) ==
    LET ids == Ascending(DOMAIN table)
        asc == [ i \in DOMAIN ids |-> table[ids[i]] ]
    IN  IF descending THEN Reverse(asc) ELSE asc

\* A lookup of a single id, WHERE id = $1 with the last id of the request
getProductsByIds_LastIdOnly(table, ids, descending) ==
    LET Wanted(row) == row.id = ids[Len(ids)]
    IN  SelectSeq(ScanOrder(table, descending), Wanted)

\* SELECT ... FROM products WHERE id = ANY($1): no shop_id condition
getProductsByIds(table, ids, descending) ==
    LET Wanted(row) == row.id \in SeqToSet(ids)
    IN  SelectSeq(ScanOrder(table, descending), Wanted)

\* merchant_score * 0.6 + purchase_score * 0.4, in thousandths
CompositeScore(row) == row.merchant_score * 6 + row.purchase_score * 4

\* A WHERE clause without the id != ALL($2) condition
Eligible_NoExclusion(row, shop, tags, excludeIds) ==
    /\ row.shop_id = shop
    /\ row.status = "active"
    /\ row.stock > 0
    /\ row.tags \in SeqToSet(tags)

\* A WHERE clause without the status = 'active' condition
Eligible_AnyStatus(row, shop, tags, excludeIds) ==
    /\ row.shop_id = shop
    /\ row.id \notin SeqToSet(excludeIds)
    /\ row.stock > 0
    /\ row.tags \in SeqToSet(tags)

\* A WHERE clause that leaves the tag condition out when there are no tags
Eligible_NoTagsNoFilter(row, shop, tags, excludeIds) ==
    /\ row.shop_id = shop
    /\ row.id \notin SeqToSet(excludeIds)
    /\ row.status = "active"
    /\ row.stock > 0
    /\ (tags = << >> \/ row.tags \in SeqToSet(tags))

\* the WHERE clause of the candidate query
Eligible(row, shop, tags, excludeIds) ==
    /\ row.shop_id = shop
    /\ row.id \notin SeqToSet(excludeIds)
    /\ row.status = "active"
    /\ row.stock > 0
    /\ row.tags \in SeqToSet(tags)

\* ORDER BY ... DESC: a row comes after the rows that score more, and after
\* the rows of equal score that the scan met before it
RankByScore(rows) ==
    LET score == [ i \in DOMAIN rows |-> CompositeScore(rows[i]) ]
    IN  [ i \in DOMAIN rows |->
            Cardinality({ j \in DOMAIN rows :
                            \/ score[j] > score[i]
                            \/ score[j] = score[i] /\ j < i }) + 1 ]

\* A query without the ORDER BY clause
OrderByScoreDesc_Unordered(rows) == rows

OrderByScoreDesc(rows) ==
    LET rank == RankByScore(rows)
    IN  [ k \in DOMAIN rows |-> rows[CHOOSE i \in DOMAIN rows : rank[i] = k] ]

\* SELECT ... WHERE ... ORDER BY (merchant_score * 0.6 + purchase_score * 0.4) DESC LIMIT $4
getCandidateProductsByTags(table, shop, tags, excludeIds, limit, descending) ==
    LET Matches(row) == Eligible(row, shop, tags, excludeIds)
    IN  Slice(OrderByScoreDesc(SelectSeq(ScanOrder(table, descending), Matches)), limit)

\* The distinct tags of the source products, in first-seen order
\* (allSourceTags: a Set filled by forEach, then Array.from)
RECURSIVE DistinctInOrder(_, _)
DistinctInOrder(s, seen) ==
    IF s = << >> THEN << >>
    ELSE IF Head(s) \in seen \/ Head(s) = "" THEN DistinctInOrder(Tail(s), seen)
    ELSE << Head(s) >> \o DistinctInOrder(Tail(s), seen \cup { Head(s) })

SourceTags(sources) == DistinctInOrder([ i \in DOMAIN sources |-> sources[i].tags ], {})

\* getRelatedTags: union of the children of the tags, first-seen order, sliced
RECURSIVE ChildrenOf(_, _)
ChildrenOf(graph, tags) ==
    IF tags = << >> THEN << >>
    ELSE (IF Head(tags) \in DOMAIN graph THEN graph[Head(tags)] ELSE << >>)
         \o ChildrenOf(graph, Tail(tags))

RECURSIVE Dedupe(_, _)
Dedupe(s, seen) ==
    IF s = << >> THEN << >>
    ELSE IF Head(s) \in seen THEN Dedupe(Tail(s), seen)
    ELSE << Head(s) >> \o Dedupe(Tail(s), seen \cup { Head(s) })

\* ... without the slice
getRelatedTags_Unsliced(graph, tags, maxTags) == Dedupe(ChildrenOf(graph, tags), {})

getRelatedTags(graph, tags, maxTags) == Slice(Dedupe(ChildrenOf(graph, tags), {}), maxTags)

-----------------------------------------------------------------------------
(* The ranking oracle and its answers *)

\* An id as JavaScript holds it: a number, a string of digits (pg returns
\* bigint columns as strings), or something Number() turns into NaN.
NumId(v) == [ rep |-> "num", v |-> v ]
StrId(v) == [ rep |-> "str", v |-> v ]
NaNId == [ rep |-> "nan", v |-> 0 ]

\* Number(x)
Number(x) == [ nan |-> x.rep = "nan", v |-> x.v ]

\* a === b on two results of Number(): NaN equals nothing
StrictEq(a, b) == ~a.nan /\ ~b.nan /\ a.v = b.v

\* One id list of the oracle's JSON object: the key is absent (or falsy), a
\* value that cannot be iterated (a number, an object), or an array of ids.
AbsentList == [ t |-> "absent", ids |-> << >> ]
ScalarList == [ t |-> "scalar", ids |-> << >> ]
IdList(ids) == [ t |-> "list", ids |-> ids ]

\* Text content of an oracle answer: no content field at all, the empty
\* string, text holding no {...}, a {...} that is not JSON, a JSON object.
NoObject(kind) == [ kind |-> kind, upsell |-> AbsentList, crosssell |-> AbsentList ]
ObjectText(u, c) == [ kind |-> "object", upsell |-> u, crosssell |-> c ]

\* The ids an oracle answer is built from, for a request and its pool: the
\* best candidate as a number, the last candidate as a string, a source id,
\* and a value that is no number.
IdChoices(ids, candidates) ==
    { NumId(candidates[1].id), StrId(candidates[Len(candidates)].id),
      NumId(ids[1]), NaNId }

ListValues(choices, n) ==
    { ScalarList } \cup { IdList(s) : s \in UNION { [ 1..k -> choices ] : k \in 0..n } }

Contents(choices) ==
    { NoObject(k) : k \in { "missing", "empty", "prose", "badjson" } }
      \cup { ObjectText(AbsentList, AbsentList) }
      \cup { ObjectText(u, c) :
               << u, c >> \in { uc \in ListValues(choices, MaxOracleIds)
                                       \X ListValues(choices, MaxOracleIds) :
                                 Len(uc[1].ids) + Len(uc[2].ids) <= MaxOracleIds } }

\* Backend and outcome of the call: no key resolves (getRecommendationsAPIConfig
\* throws), the SDK call, the direct HTTP call.
OracleOutcomes(choices) ==
    { [ backend |-> "none", call |-> "threw", content |-> NoObject("missing") ] }
      \cup { [ backend |-> b, call |-> "threw", content |-> NoObject("missing") ] :
               b \in { "neurolink", "direct" } }
      \cup { [ backend |-> "direct", call |-> "non2xx", content |-> NoObject("missing") ] }
      \cup { [ backend |-> b, call |-> "ok", content |-> c ] :
               b \in { "neurolink", "direct" }, c \in Contents(choices) }

NoOracle == [ backend |-> "none", call |-> "notcalled", content |-> NoObject("missing") ]

\* llmResponse: result.content on the SDK path;
\* data.choices?.[0]?.message?.content || '{}' on the direct path
llmResponse(o) ==
    IF o.backend = "direct" /\ o.content.kind \in { "missing", "empty" }
    THEN ObjectText(AbsentList, AbsentList)
    ELSE o.content

\* for (const productId of recommendations.upsell || []) throws on a value
\* that is truthy and not iterable
Iterable(list) == list.t # "scalar"

\* A try block whose loops guard against values that cannot be iterated
TryThrows_GuardedLoops(o) ==
    \/ o.backend = "none"
    \/ o.call # "ok"
    \/ llmResponse(o).kind \in { "missing", "empty", "prose", "badjson" }

\* Does the try block of findNearestProductsWithLLM throw?
TryThrows(o) ==
    \/ o.backend = "none"                      \* getRecommendationsAPIConfig
    \/ o.call # "ok"                           \* generate/fetch rejected, !response.ok
    \/ llmResponse(o).kind = "missing"         \* undefined.replace
    \/ llmResponse(o).kind \in { "empty", "prose" }  \* no {...} in the text
    \/ llmResponse(o).kind = "badjson"         \* JSON.parse
    \/ ~Iterable(llmResponse(o).upsell)
    \/ ~Iterable(llmResponse(o).crosssell)

-----------------------------------------------------------------------------
(* Ranking: findNearestProductsWithLLM *)

\* One ScoredProduct per variant of a candidate, in the stored variant order
ScoredEntry(candidate, variant, score, merchant, purchase) ==
    [ id |-> candidate.id, variant_id |-> variant.id,
      category |-> candidate.category, price |-> variant.price,
      score |-> score, merchant_score |-> merchant, purchase_score |-> purchase ]

ExpandVariants(candidate, score) ==
    [ k \in DOMAIN candidate.variants |->
        ScoredEntry(candidate, candidate.variants[k], score,
                    candidate.merchant_score, candidate.purchase_score) ]

\* A lookup by c.id === productId, without Number(): the pool's ids are the
\* strings pg returns for bigint, so only an id returned as a string matches
FindCandidate_StrictTypes(candidates, productId) ==
    LET hit == { i \in DOMAIN candidates :
                   productId.rep = "str" /\ productId.v = candidates[i].id }
    IN  IF hit = {} THEN << >>
        ELSE << candidates[CHOOSE i \in hit : \A j \in hit : i <= j] >>

\* A lookup of the returned id in the products table instead of the pool
FindCandidate_InStore(candidates, productId) ==
    LET hit == { id \in DOMAIN products :
                   StrictEq(Number(StrId(id)), Number(productId)) }
    IN  IF hit = {} THEN << >>
        ELSE << products[CHOOSE i \in hit : \A j \in hit : i <= j] >>

\* candidateList.find(c => Number(c.id) === Number(productId)): the first
\* candidate of the pool with that id, if any
FindCandidate(candidates, productId) ==
    LET hit == { i \in DOMAIN candidates :
                   StrictEq(Number(StrId(candidates[i].id)), Number(productId)) }
    IN  IF hit = {} THEN << >>
        ELSE << candidates[CHOOSE i \in hit : \A j \in hit : i <= j] >>

\* the loop over one id list: ids that match no candidate are skipped
ExpandIds(candidates, ids, score) ==
    Flatten([ i \in DOMAIN ids |->
                LET found == FindCandidate(candidates, ids[i])
                IN  IF found = << >> THEN << >> ELSE ExpandVariants(found[1], score) ])

\* Lists returned without the slice
FinalSlice_Unsliced(entries) == entries

\* upsell.slice(0, config.limits.final_recommendations)
FinalSlice(entries) == Slice(entries, final_recommendations)

\* the value the try block returns when it does not throw
OracleResult(o, candidates) ==
    [ upsell    |-> FinalSlice(ExpandIds(candidates, llmResponse(o).upsell.ids, 90)),
      crosssell |-> FinalSlice(ExpandIds(candidates, llmResponse(o).crosssell.ids, 85)) ]

\* number of decimal digits of a whole amount
RECURSIVE Digits(_)
Digits(n) == IF n < 10 THEN 1 ELSE 1 + Digits(n \div 10)

RECURSIVE Pow10(_)
Pow10(k) == IF k = 0 THEN 1 ELSE 10 * Pow10(k - 1)

\* sourceProducts.reduce((sum, p) => sum + p.price, 0): pg returns the NUMERIC
\* price column as a string, so + appends the digits of each price
RECURSIVE PriceSum(_, _)
PriceSum(sources, sum) ==
    IF sources = << >> THEN sum
    ELSE PriceSum(Tail(sources),
                  sum * Pow10(Digits(Head(sources).price)) + Head(sources).price)

\* variant.price >= avgPrice, avgPrice = PriceSum / sourceProducts.length
isHigherPrice(variant, sources) ==
    variant.price * Len(sources) >= PriceSum(sources, 0)

isSameCategory(candidate, sources) ==
    \E i \in DOMAIN sources : sources[i].category = candidate.category

\* candidate.merchant_score || 0.5
OrHalf(score) == IF score = 0 THEN 50 ELSE score

\* A fallback loop over the whole pool instead of candidates.slice(0, 20)
FallbackEntries_AllCandidates(sources, candidates) ==
    Flatten([ i \in DOMAIN candidates |->
            [ k \in DOMAIN candidates[i].variants |->
                [ entry |-> ScoredEntry(candidates[i], candidates[i].variants[k],
                                        OrHalf(candidates[i].merchant_score),
                                        OrHalf(candidates[i].merchant_score),
                                        OrHalf(candidates[i].purchase_score)),
                  upsell |-> /\ isSameCategory(candidates[i], sources)
                             /\ isHigherPrice(candidates[i].variants[k], sources) ] ] ])

\* the expansion of the fallback, each entry with the list it is pushed to
FallbackEntries(sources, candidates) ==
    LET first == Slice(candidates, FallbackCandidates)
    IN  Flatten([ i \in DOMAIN first |->
            [ k \in DOMAIN first[i].variants |->
                [ entry |-> ScoredEntry(first[i], first[i].variants[k],
                                        OrHalf(first[i].merchant_score),
                                        OrHalf(first[i].merchant_score),
                                        OrHalf(first[i].purchase_score)),
                  upsell |-> /\ isSameCategory(first[i], sources)
                             /\ isHigherPrice(first[i].variants[k], sources) ] ] ])

EntriesWhere(tagged, upsell) ==
    LET kept == { i \in DOMAIN tagged : tagged[i].upsell = upsell }
    IN  [ k \in 1..Cardinality(kept) |->
            tagged[CHOOSE i \in kept : Cardinality({ j \in kept : j < i }) = k - 1].entry ]

\* the value the catch block returns
FallbackResult(sources, candidates) ==
    [ upsell    |-> FinalSlice(EntriesWhere(FallbackEntries(sources, candidates), TRUE)),
      crosssell |-> FinalSlice(EntriesWhere(FallbackEntries(sources, candidates), FALSE)) ]

EmptyResult == [ upsell |-> << >>, crosssell |-> << >> ]

-----------------------------------------------------------------------------
(* Precomputation: the data a run works on *)

\* src/data/products.json: the catalog loadProductCatalog reads, whatever the
\* shop.  Product 2 is stored already in the small catalogs, product 5 is
\* new; status "" stands for a product without a status.
CatalogProduct(id, title, category, price, status, n, stock) ==
    [ id |-> id, title |-> title, category |-> category, price |-> price,
      status |-> status, variants |-> VariantsOf(id, n, price, stock) ]

Catalog ==
    << [ CatalogProduct(2, "denim", "Tops", 25, "", 2, 50) EXCEPT !.variants =
           << [ id |-> 21, price |-> 25, inventory_quantity |-> 30 ],
              [ id |-> 22, price |-> 30 ],
              [ id |-> 23, price |-> 35, inventory_quantity |-> 20 ] >> ],
       CatalogProduct(5, "runner", "", 45, "draft", 1, 0) >>

\* const batchSize = 50
batchSize == 50

\* the stocks around the thresholds of the merchant score
BoundaryStocks == << 0, 1, 20, 21, 50, 51 >>

\* A products.json of more than one batch: products with and without a
\* category, some without a title either, stocks on both sides of every
\* threshold.
LargeCatalogProduct(i) ==
    CatalogProduct(i,
                   IF i % 5 = 0 THEN "" ELSE IF i % 2 = 0 THEN "denim" ELSE "runner",
                   IF i % 5 = 0 THEN "" ELSE IF i % 3 = 0 THEN "Tops"
                   ELSE IF i % 3 = 1 THEN "Shoes" ELSE "",
                   10 + 10 * (i % 5), "", 1, BoundaryStocks[(i % 6) + 1])

LargeCatalogs ==
    { [ i \in 1..(batchSize + k) |-> LargeCatalogProduct(i) ] : k \in 1..MaxBatchExtra }

\* the map with the quantity of the first variant as stock
loadProductCatalog_FirstVariantStock(catalog) ==
    [ i \in DOMAIN catalog |->
        [ id |-> catalog[i].id, title |-> catalog[i].title,
          category |-> catalog[i].category, price |-> catalog[i].price,
          status |-> IF catalog[i].status = "" THEN "active" ELSE catalog[i].status,
          stock |-> QuantityOf(catalog[i].variants[1]),
          variants |-> catalog[i].variants ] ]

\* catalog.products.map(p => ({...p, status: p.status || 'active',
\*                            stock: calculateStock(p.variants), ...}))
loadProductCatalog(catalog) ==
    [ i \in DOMAIN catalog |->
        [ id |-> catalog[i].id, title |-> catalog[i].title,
          category |-> catalog[i].category, price |-> catalog[i].price,
          status |-> IF catalog[i].status = "" THEN "active" ELSE catalog[i].status,
          stock |-> calculateStock(catalog[i].variants),
          variants |-> catalog[i].variants ] ]

\* toLowerCase() on the categories of the catalog
toLowerCase(text) ==
    CASE text = "Tops" -> "tops"
      [] text = "Shoes" -> "shoes"
      [] OTHER -> text

\* extractFallbackTags: the lowercased category, else the first meaningful
\* word of the title, else 'product'
extractFallbackTags(product) ==
    IF product.category # "" THEN << toLowerCase(product.category) >>
    ELSE IF product.title # "" THEN << toLowerCase(product.title) >>
    ELSE << "product" >>

\* the tag the oracle gives a product when it gives one
OracleTag(id) == IF id % 2 = 0 THEN "jeans" ELSE "sneakers"

\* What one batch call can produce: the call or its parsing failed, the
\* answer has an entry with a tag for every product, entries with empty tag
\* lists, or no entry for the products.
BatchOutcomes == { "failed", "tags", "emptyTags", "noEntry" }

\* generateEmbeddingFromText: an array of config.embedding.dimensions numbers
\* whatever the text; the vector is kept as "vector", SQL NULL as "NULL"
generateEmbeddingFromText(text) == "vector"

\* batchProcessProductsWithLLM: llmData?.tags || extractFallbackTags(product)
\* (an empty array is truthy), and the fallback loop of the catch block
batchProcessProductsWithLLM(batch, outcome) ==
    [ i \in DOMAIN batch |->
        [ id |-> batch[i].id,
          embedding |-> generateEmbeddingFromText(batch[i].title),
          tags |-> CASE outcome = "tags" -> << OracleTag(batch[i].id) >>
                     [] outcome = "emptyTags" -> << >>
                     [] OTHER -> extractFallbackTags(batch[i]) ] ]

\* data.tags[0], without the placeholder
PrimaryTag_NoPlaceholder(tags) == IF tags = << >> THEN "" ELSE tags[1]

\* data.tags[0] || 'product'
PrimaryTag(tags) == IF tags = << >> THEN "product" ELSE tags[1]

\* INSERT INTO products ... ON CONFLICT (id) DO UPDATE SET title = $3, ...:
\* a row that exists keeps its shop_id
UpsertProduct_KeepsShop(table, shop, product, data) ==
    LET old == product.id \in DOMAIN table
        row == [ id |-> product.id,
                 shop_id |-> IF old THEN table[product.id].shop_id ELSE shop,
                 status |-> product.status,
                 stock |-> product.stock, tags |-> PrimaryTag(data.tags),
                 embedding |-> data.embedding,
                 category |-> product.category, price |-> product.price,
                 variants |-> product.variants,
                 merchant_score |-> IF old THEN table[product.id].merchant_score ELSE 0,
                 purchase_score |-> IF old THEN table[product.id].purchase_score ELSE 0 ]
    IN  [ id \in DOMAIN table \cup { product.id } |->
            IF id = product.id THEN row ELSE table[id] ]

\* INSERT INTO products ... ON CONFLICT (id) DO UPDATE SET shop_id = $2, ...:
\* the scores are written on insert only (product.merchant_score || 0)
UpsertProduct(table, shop, product, data) ==
    LET row == [ id |-> product.id, shop_id |-> shop, status |-> product.status,
                 stock |-> product.stock, tags |-> PrimaryTag(data.tags),
                 embedding |-> data.embedding,
                 category |-> product.category, price |-> product.price,
                 variants |-> product.variants,
                 merchant_score |-> IF product.id \in DOMAIN table
                                    THEN table[product.id].merchant_score ELSE 0,
                 purchase_score |-> IF product.id \in DOMAIN table
                                    THEN table[product.id].purchase_score ELSE 0 ]
    IN  [ id \in DOMAIN table \cup { product.id } |->
            IF id = product.id THEN row ELSE table[id] ]

\* saveProductsWithData, the first n turns of its loop: a product without
\* data is skipped, the others are upserted one after the other, so that the
\* last upsert of an id is the one the table keeps
saveProductsWithData(table, shop, list, data, n) ==
    LET turns == { i \in 1..Min(n, Len(list)) : list[i].id \in DOMAIN data }
        ids == { list[i].id : i \in turns }
        last(id) == CHOOSE i \in turns :
                        /\ list[i].id = id
                        /\ \A j \in turns : list[j].id = id => j <= i
    IN  [ id \in DOMAIN table \cup ids |->
            IF id \in ids
            THEN UpsertProduct(table, shop, list[last(id)], data[id])[id]
            ELSE table[id] ]

\* RANDOM() * 0.5 + 0.5, in hundredths: the least value and one near the top
PurchaseScores == { 50, 99 }

\* computeProductScores, first query: UPDATE products SET merchant_score = CASE ...
UpdateMerchantScores(table, shop) ==
    [ id \in DOMAIN table |->
        IF table[id].shop_id = shop
        THEN [ table[id] EXCEPT !.merchant_score = MerchantScoreOf(table[id].stock) ]
        ELSE table[id] ]

\* ... second query: UPDATE products SET purchase_score = RANDOM() * 0.5 + 0.5
UpdatePurchaseScores(table, shop, random) ==
    [ id \in DOMAIN table |->
        IF table[id].shop_id = shop
        THEN [ table[id] EXCEPT !.purchase_score = random[id] ]
        ELSE table[id] ]

\* SELECT DISTINCT tags FROM products WHERE shop_id = $1 AND tags IS NOT NULL
DistinctTags(table, shop) ==
    { table[id].tags : id \in { i \in DOMAIN table : table[i].shop_id = shop } }

\* the elements of a set in the order an answer lists them
RECURSIVE SetToSeq(_)
SetToSeq(set) ==
    IF set = {} THEN << >>
    ELSE LET first == CHOOSE x \in set : TRUE
         IN  << first >> \o SetToSeq(set \ { first })

\* the value of item.related in an entry of the oracle's answer: an array, or
\* undefined when the entry has no 'related'
Related(items) == [ array |-> TRUE, items |-> items ]

Undefined == [ array |-> FALSE, items |-> << >> ]

\* buildTagGraphWithLLM: the Map the oracle's answer is parsed into by
\* tagGraph.set(item.tag, item.related).  A failed call or an answer without
\* a JSON array leaves the Map empty; an answer relates every tag to the
\* other tags, relates the tags to nothing, lists values that are not
\* non-blank strings ("" here), or has entries without 'related'.
GraphOutcomes == { "failed", "related", "unrelated", "relatedInvalid", "relatedMissing" }

buildTagGraphWithLLM(allTags, outcome) ==
    CASE outcome = "related" ->
             [ t \in allTags |-> Related(SetToSeq(allTags \ { t })) ]
      [] outcome = "unrelated" ->
             [ t \in allTags |-> Related(<< >>) ]
      [] outcome = "relatedInvalid" ->
             [ t \in allTags |-> Related(<< "" >>) ]
      [] outcome = "relatedMissing" ->
             [ t \in allTags |-> Undefined ]
      [] OTHER -> << >>

\* children.filter(c => c && typeof c === 'string' && c.trim().length > 0)
validChildren(children) ==
    LET Valid(c) == c # ""
    IN  SelectSeq(children.items, Valid)

\* children.filter is a call on undefined: a TypeError
FilterThrows(children) == ~children.array

\* saveTagGraphToDatabase, its first n entries: an entry without valid
\* children is skipped, the others are upserted
RECURSIVE saveTagGraphToDatabase(_, _, _, _)
saveTagGraphToDatabase(table, graph, entries, n) ==
    IF n = 0 \/ entries = << >> THEN table
    ELSE IF validChildren(graph[Head(entries)]) = << >>
         THEN saveTagGraphToDatabase(table, graph, Tail(entries), n - 1)
         ELSE saveTagGraphToDatabase(
                  [ t \in DOMAIN table \cup { Head(entries) } |->
                      IF t = Head(entries) THEN validChildren(graph[Head(entries)])
                      ELSE table[t] ],
                  graph, Tail(entries), n - 1)

\* the message of the TypeError a call on undefined raises
TypeError == "type error"

\* INSERT INTO process_tracker (shop_id, status, product_count, started_at,
\* created_at) VALUES ($1, 'running', 0, ...) RETURNING id: completed_at is
\* left NULL (FALSE here), the id is the next of the sequence
InsertRunning(table, shop) ==
    Append(table, [ shop_id |-> shop, status |-> "running",
                    product_count |-> 0, completed_at |-> FALSE ])

\* UPDATE process_tracker SET status = 'completed', completed_at = now
\* WHERE id = $1
MarkCompleted(table, trackerId) ==
    [ table EXCEPT ![trackerId].status = "completed",
                   ![trackerId].completed_at = TRUE ]

\* an UPDATE to 'failed' of the rows of the shop instead of the row of the run
MarkFailed_RowsOfShop(table, trackerId) ==
    [ i \in DOMAIN table |->
        IF table[i].shop_id = table[trackerId].shop_id
        THEN [ table[i] EXCEPT !.status = "failed" ] ELSE table[i] ]

\* an UPDATE to 'failed' that sets completed_at as the one to 'completed' does
MarkFailed_SetsCompletedAt(table, trackerId) ==
    [ table EXCEPT ![trackerId].status = "failed",
                   ![trackerId].completed_at = TRUE ]

\* UPDATE process_tracker SET status = $1 WHERE id = $2, ['failed', trackerId]
MarkFailed(table, trackerId) ==
    [ table EXCEPT ![trackerId].status = "failed" ]

\* the process_tracker table a request meets: the row of the earlier run
\* that filled the store
EarlierRuns ==
    << [ shop_id |-> "s1", status |-> "completed",
         product_count |-> 4, completed_at |-> TRUE ] >>

\* the values RANDOM() gives the rows of a shop: the same draw for every
\* row, or one draw for the even ids and one for the odd ids
PurchaseDraws(ids) ==
    { [ id \in ids |-> IF id % 2 = 0 THEN even ELSE odd ] :
          even \in PurchaseScores, odd \in PurchaseScores }

\* runPrecomputation(...).catch(err => console.error(...)): the handler
\* attaches a rejection handler to the run it does not await
RejectionHandled_NoCatch == FALSE

RejectionHandled == TRUE

\* a run of runPrecomputation: where it stands, its arguments and locals
NoRun ==
    [ pc |-> "none", shop |-> "", trackerId |-> 0, held |-> 0, error |-> "none",
      caught |-> "none", products |-> << >>, next |-> 1, outcomes |-> << >>,
      productData |-> << >>,
      uniqueTags |-> {}, graphOutcome |-> "none", tagGraph |-> << >> ]

-----------------------------------------------------------------------------
(* the storage pool shared by concurrent recommendation requests *)

\* the largest pool and the most requests in flight
MaxPoolSize == 2

MaxRequests == 3

RequestNames == 1..MaxRequests

\* a request that has not arrived: it holds neither the client of
\* getRecommendations nor the client of getRelatedTags
NotArrived == [ pc |-> "idle", client |-> FALSE, tagClient |-> FALSE ]

\* clients of the pool that are checked out
InUse(reqs) ==
    Cardinality({ r \in DOMAIN reqs : reqs[r].client })
      + Cardinality({ r \in DOMAIN reqs : reqs[r].tagClient })

-----------------------------------------------------------------------------
(* precomputation runs in flight at the same time *)

\* the most runs in flight
MaxRuns == 2

RunNames == 1..MaxRuns

\* a run that was not started: let trackerId = null
NotStarted == [ pc |-> "none", shop |-> "", trackerId |-> 0 ]

-----------------------------------------------------------------------------
(* the recommendation_type field of the request body *)

TypeAbsent == [ sent |-> FALSE, types |-> << >> ]

TypeSent(types) == [ sent |-> TRUE, types |-> types ]

\* what a client can send
RecommendationTypes ==
    { TypeAbsent, TypeSent(<< >>), TypeSent(<< "upsell" >>), TypeSent(<< "crosssell" >>),
      TypeSent(<< "upsell", "crosssell" >>) }

\* recommendation_type || ['upsell', 'crosssell'], the third argument of
\* getRecommendations, which hands it to findNearestProductsWithLLM
recommendationType(field) ==
    IF field.sent THEN field.types ELSE << "upsell", "crosssell" >>

-----------------------------------------------------------------------------
(* the server process and its shutdown *)

Signals == { "SIGTERM", "SIGINT" }

\* let isShuttingDown = false (index.ts), let isClosing = false (db.ts), the
\* pool not ended, no signal received, no exit code
ProcessUp ==
    [ pc |-> "up", isShuttingDown |-> FALSE, isClosing |-> FALSE,
      poolEnds |-> 0, closeError |-> FALSE, exitCode |-> << >>, received |-> << >> ]

\* process.exit(code)
exit(p, code) == [ p EXCEPT !.pc = "exited", !.exitCode = << code >> ]

\* closeDatabase up to its await: if (!isClosing) { isClosing = true;
\* await pool.end() }, else it returns at once
closeDatabase(p) ==
    IF ~p.isClosing
    THEN [ p EXCEPT !.isClosing = TRUE, !.poolEnds = p.poolEnds + 1, !.pc = "closing" ]
    ELSE [ p EXCEPT !.pc = "closed" ]

\* the rest of closeDatabase and of shutdown once pool.end() settled: an error
\* of pool.end() is caught and logged by closeDatabase, which then returns, so
\* the try block of shutdown goes on to process.exit(0)
closed(p, rejected) == exit([ p EXCEPT !.closeError = rejected ], 0)

shutdown_Unguarded(p, signal) ==
    LET q == [ p EXCEPT !.received = Append(p.received, signal) ]
        c == closeDatabase([ q EXCEPT !.isShuttingDown = TRUE ])
    IN  IF c.pc = "closed" THEN exit(c, 0) ELSE c

\* shutdown(signal) up to its await: a signal during the shutdown exits with
\* code 1, the first one sets isShuttingDown and calls closeDatabase
shutdown(p, signal) ==
    LET q == [ p EXCEPT !.received = Append(p.received, signal) ]
        c == closeDatabase([ q EXCEPT !.isShuttingDown = TRUE ])
    IN  IF p.isShuttingDown THEN exit(q, 1)
        ELSE IF c.pc = "closed" THEN exit(c, 0) ELSE c

-----------------------------------------------------------------------------
(* process.env and the resolution of the oracle backend *)

\* API endpoints
GRID_AI_URL == "https://grid.ai.juspay.net/v1/chat/completions"

GEMINI_URL == "https://generativelanguage.googleapis.com/v1beta/chat/completions"

\* a variable of process.env: undefined, or a string kept as its characters
EnvUnset == [ set |-> FALSE, chars |-> << >> ]

EnvValue(chars) == [ set |-> TRUE, chars |-> chars ]

\* String.prototype.toLowerCase, on the letters the values are written with
LowerCaseOf(c) ==
    CASE c = "T" -> "t"
      [] c = "R" -> "r"
      [] c = "U" -> "u"
      [] c = "E" -> "e"
      [] c = "F" -> "f"
      [] c = "A" -> "a"
      [] c = "L" -> "l"
      [] c = "S" -> "s"
      [] c = "K" -> "k"
      [] OTHER -> c

LowerCase(chars) == [ i \in DOMAIN chars |-> LowerCaseOf(chars[i]) ]

\* String.prototype.trim: white space removed at both ends
WhiteSpace == { " ", "\t", "\n" }

trim(chars) ==
    LET inked == { i \in DOMAIN chars : chars[i] \notin WhiteSpace }
    IN  IF inked = {} THEN << >>
        ELSE LET first == CHOOSE i \in inked : \A j \in inked : i <= j
                 last == CHOOSE i \in inked : \A j \in inked : j <= i
             IN  SubSeq(chars, first, last)

\* the environments a deployment can start with
UseNeurolinkValues ==
    { EnvUnset, EnvValue(<< >>),
      EnvValue(<< "t", "r", "u", "e" >>), EnvValue(<< "T", "R", "U", "E" >>),
      EnvValue(<< "T", "r", "u", "e" >>), EnvValue(<< " ", "t", "r", "u", "e" >>),
      EnvValue(<< "f", "a", "l", "s", "e" >>), EnvValue(<< "1" >>) }

RecommendationsKeyValues ==
    { EnvUnset, EnvValue(<< >>), EnvValue(<< " " >>),
      EnvValue(<< "k", "1" >>), EnvValue(<< " ", "k", "1", " " >>) }

GridKeyValues ==
    { EnvUnset, EnvValue(<< >>), EnvValue(<< " " >>), EnvValue(<< "k", "2" >>) }

Environments ==
    [ USE_NEUROLINK : UseNeurolinkValues,
      RECOMMENDATIONS_API_KEY : RecommendationsKeyValues,
      GRID_AI_API_KEY : GridKeyValues ]

\* process.env.USE_NEUROLINK?.toLowerCase() === 'true'
shouldUseNeurolink(e) ==
    /\ e.USE_NEUROLINK.set
    /\ LowerCase(e.USE_NEUROLINK.chars) = << "t", "r", "u", "e" >>

\* what the call of getRecommendationsAPIConfig produced
Returned(url, apiKey, useNeurolink) ==
    [ outcome |-> "returned", url |-> url, apiKey |-> apiKey,
      useNeurolink |-> useNeurolink ]

NoKeyFound ==
    [ outcome |-> "threw", url |-> "", apiKey |-> << >>, useNeurolink |-> FALSE ]

Unresolved ==
    [ outcome |-> "none", url |-> "", apiKey |-> << >>, useNeurolink |-> FALSE ]

getRecommendationsAPIConfig_KeyFirst(e) ==
    LET recommendationsKey == e.RECOMMENDATIONS_API_KEY
        gridKey == IF e.GRID_AI_API_KEY.set THEN e.GRID_AI_API_KEY.chars ELSE << >>
    IN  IF recommendationsKey.set /\ recommendationsKey.chars # << >>
           /\ trim(recommendationsKey.chars) # << >>
        THEN Returned(GEMINI_URL, recommendationsKey.chars, FALSE)
        ELSE IF shouldUseNeurolink(e) THEN Returned("", << >>, TRUE)
        ELSE IF gridKey = << >> THEN NoKeyFound
        ELSE Returned(GRID_AI_URL, gridKey, FALSE)

\* getRecommendationsAPIConfig: Neurolink first, then RECOMMENDATIONS_API_KEY
\* (tested trimmed, passed as it is), then GRID_AI_API_KEY || '' (not trimmed),
\* else throw new Error('No API key found: ...')
getRecommendationsAPIConfig(e) ==
    LET recommendationsKey == e.RECOMMENDATIONS_API_KEY
        gridKey == IF e.GRID_AI_API_KEY.set THEN e.GRID_AI_API_KEY.chars ELSE << >>
    IN  IF shouldUseNeurolink(e) THEN Returned("", << >>, TRUE)
        ELSE IF recommendationsKey.set /\ recommendationsKey.chars # << >>
                /\ trim(recommendationsKey.chars) # << >>
        THEN Returned(GEMINI_URL, recommendationsKey.chars, FALSE)
        ELSE IF gridKey = << >> THEN NoKeyFound
        ELSE Returned(GRID_AI_URL, gridKey, FALSE)

\* outside backend resolution the environment is one deployment's
DeployedEnv ==
    [ USE_NEUROLINK |-> EnvUnset,
      RECOMMENDATIONS_API_KEY |-> EnvUnset,
      GRID_AI_API_KEY |-> EnvValue(<< "k", "2" >>) ]

EnvInit ==
    /\ env = DeployedEnv
    /\ apiConfig = Unresolved

\* no oracle call yet
CallsInit ==
    /\ rankCalls = 0
    /\ graphCalls = 0

\* no concurrent request yet
PoolInit ==
    /\ poolSize = 1
    /\ requests = [ r \in RequestNames |-> NotArrived ]

\* no concurrent run yet
RunsInit == runs = [ k \in RunNames |-> NotStarted ]

\* the client sends no recommendation_type
TypeInit == recommendation_type = TypeAbsent

\* the process runs
ProcInit == proc = ProcessUp

AuxInit ==
    /\ EnvInit
    /\ CallsInit
    /\ PoolInit
    /\ RunsInit
    /\ TypeInit
    /\ ProcInit

-----------------------------------------------------------------------------
(* getRecommendations, step by step *)

RequestInit ==
    /\ pc = "idle"
    /\ body = NoBody
    /\ shopId = "s1"
    /\ productIds = << >>
    /\ sourceProducts = << >>
    /\ relatedTags = << >>
    /\ candidateProducts = << >>
    /\ oracle = NoOracle
    /\ path = "none"
    /\ result = EmptyResult
    /\ error = "none"
    /\ http = 0
    /\ held = 0
    /\ acquired = 0
    /\ fault = "none"

\* no precomputation request yet
RunInit ==
    /\ process_tracker = << >>
    /\ preHttp = 0
    /\ run = NoRun
    /\ logged = "none"
    /\ server = "up"
    /\ products_json = Catalog

PrecomputeInit ==
    /\ RunInit
    /\ AuxInit

Init ==
    /\ \E st \in SmallStoreStates \cup WideStoreStates :
         /\ products = st.products
         /\ tag_graph = st.tag_graph
    /\ RequestInit
    /\ PrecomputeInit

InitLarge ==
    /\ \E st \in LargeStoreStates :
         /\ products = st.products
         /\ tag_graph = st.tag_graph
    /\ RequestInit
    /\ PrecomputeInit

\* the catch block of the handler: res.status(500).json({ error: error.message })
\* after getRecommendations rethrew and its finally block released the client
Throw(message, step, storage) ==
    /\ pc' = "failed"
    /\ error' = message
    /\ fault' = IF storage THEN step ELSE fault
    /\ http' = 500
    /\ held' = 0

\* POST /api/recommendations: the body is validated, then getRecommendations
\* is called with shop_id and product_ids
Request ==
    /\ pc = "idle"
    /\ \E b \in RequestBodies :
         /\ body' = [ shop_id |-> b.shop_id, product_ids |-> b.product_ids ]
         /\ shopId' = b.shop
         /\ productIds' = b.ids
         /\ IF BadRequest(b)
            THEN pc' = "rejected" /\ http' = 400
            ELSE pc' = "connect" /\ http' = http
    /\ UNCHANGED << storeVars, sourceProducts, relatedTags, candidateProducts,
                    oracle, path, result, error, held, acquired, fault >>
    /\ UNCHANGED preVars

\* const client = await pool.connect(), before the try block
Connect ==
    /\ pc = "connect"
    /\ \E ok \in BOOLEAN :
         IF ok
         THEN /\ pc' = "step1"
              /\ held' = held + 1
              /\ acquired' = acquired + 1
              /\ UNCHANGED << error, fault, http >>
         ELSE /\ Throw(StorageError, "connect", TRUE)
              /\ acquired' = acquired
    /\ UNCHANGED << storeVars, argVars, sourceProducts, relatedTags,
                    candidateProducts, oracle, path, result >>
    /\ UNCHANGED preVars

\* STEP 1: getProductsByIds; throws when no source product resolves
Step1 ==
    /\ pc = "step1"
    /\ \E ok \in BOOLEAN, descending \in BOOLEAN :
         IF ~ok \/ ~CastsToBigint(body.product_ids)
         THEN /\ Throw(StorageError, "source", TRUE)
              /\ sourceProducts' = sourceProducts
         ELSE /\ sourceProducts' = getProductsByIds(products, productIds, descending)
              /\ IF sourceProducts' = << >>
                 THEN Throw("No products found for given IDs", "source", FALSE)
                 ELSE /\ pc' = "step2"
                      /\ UNCHANGED << error, fault, http, held >>
    /\ UNCHANGED << storeVars, argVars, relatedTags, candidateProducts,
                    oracle, path, result, acquired >>
    /\ UNCHANGED preVars

\* STEP 2, getRelatedTags(sourceTags, 'crosssell', 50): its own
\* const client = await pool.connect(), before its try block
Step2Connect ==
    /\ pc = "step2"
    /\ \E ok \in BOOLEAN :
         IF ok
         THEN /\ pc' = "step2query"
              /\ held' = held + 1
              /\ acquired' = acquired + 1
              /\ UNCHANGED << error, fault, http >>
         ELSE /\ Throw(StorageError, "tagConnect", TRUE)
              /\ acquired' = acquired
    /\ UNCHANGED << storeVars, argVars, sourceProducts, relatedTags,
                    candidateProducts, oracle, path, result >>
    /\ UNCHANGED preVars

\* ... its queries, one per source tag: an error of any of them is caught and
\* [] returned; the finally block releases its client
Step2 ==
    /\ pc = "step2query"
    /\ \E ok \in BOOLEAN :
         IF ok \/ SourceTags(sourceProducts) = << >>
         THEN /\ relatedTags' = getRelatedTags(tag_graph, SourceTags(sourceProducts),
                                               RelatedTagsMax)
              /\ fault' = fault
         ELSE /\ relatedTags' = << >>
              /\ fault' = "tagQuery"
    /\ held' = held - 1
    /\ pc' = "step3"
    /\ UNCHANGED << storeVars, argVars, sourceProducts, candidateProducts,
                    oracle, path, result, error, http, acquired >>
    /\ UNCHANGED preVars

\* STEP 3: getCandidateProductsByTags(client, shopId, relatedTags, productIds, 100);
\* no candidates returns the empty result
Step3 ==
    /\ pc = "step3"
    /\ \E ok \in BOOLEAN, descending \in BOOLEAN :
         IF ~ok
         THEN /\ Throw(StorageError, "candidates", TRUE)
              /\ UNCHANGED << candidateProducts, path >>
         ELSE /\ candidateProducts' =
                    getCandidateProductsByTags(products, shopId, relatedTags, productIds,
                                               CandidateQueryLimit, descending)
              /\ IF candidateProducts' = << >>
                 THEN /\ pc' = "done"
                      /\ path' = "empty"
                      /\ http' = 200
                      /\ held' = 0
                 ELSE /\ pc' = "step4"
                      /\ UNCHANGED << path, http, held >>
              /\ UNCHANGED << error, fault >>
    /\ UNCHANGED << storeVars, argVars, sourceProducts, relatedTags,
                    oracle, result, acquired >>
    /\ UNCHANGED preVars

\* STEP 4, the oracle call inside the try block: backend resolution and the
\* single call, with whatever the oracle does
InvokeOracle ==
    /\ pc = "step4"
    /\ oracle' \in OracleOutcomes(IdChoices(productIds, candidateProducts))
    /\ rankCalls' = IF oracle'.backend = "none" THEN rankCalls ELSE rankCalls + 1
    /\ pc' = "parse"
    /\ UNCHANGED << storeVars, argVars, sourceProducts, relatedTags,
                    candidateProducts, path, result, error, connVars, fault, http >>
    /\ UNCHANGED << runVars, envVars, graphCalls, poolVars, runs, recommendation_type, proc >>

\* the rest of the try block ran to its return; the finally block of
\* getRecommendations releases the client and the handler answers
RankSuccess_ByType ==
    /\ pc = "parse"
    /\ ~TryThrows(oracle)
    /\ LET ranked == OracleResult(oracle, candidateProducts)
           asked == SeqToSet(recommendationType(recommendation_type))
       IN  result' = [ upsell    |-> IF "upsell" \in asked THEN ranked.upsell ELSE << >>,
                       crosssell |-> IF "crosssell" \in asked THEN ranked.crosssell ELSE << >> ]
    /\ path' = "success"
    /\ pc' = "done"
    /\ http' = 200
    /\ held' = 0
    /\ UNCHANGED << storeVars, argVars, sourceProducts, relatedTags,
                    candidateProducts, oracle, error, acquired, fault >>
    /\ UNCHANGED preVars

RankSuccess ==
    /\ pc = "parse"
    /\ ~TryThrows(oracle)
    /\ result' = OracleResult(oracle, candidateProducts)
    /\ path' = "success"
    /\ pc' = "done"
    /\ http' = 200
    /\ held' = 0
    /\ UNCHANGED << storeVars, argVars, sourceProducts, relatedTags,
                    candidateProducts, oracle, error, acquired, fault >>
    /\ UNCHANGED preVars

\* the try block threw: the catch block computes the fallback
RankFallback_Retry ==
    /\ pc = "parse"
    /\ TryThrows(oracle)
    /\ pc' = "step4"
    /\ UNCHANGED << storeVars, argVars, sourceProducts, relatedTags,
                    candidateProducts, oracle, error, acquired, fault,
                    path, result, http, held >>
    /\ UNCHANGED preVars

RankFallback ==
    /\ pc = "parse"
    /\ TryThrows(oracle)
    /\ result' = FallbackResult(sourceProducts, candidateProducts)
    /\ path' = "fallback"
    /\ pc' = "done"
    /\ http' = 200
    /\ held' = 0
    /\ UNCHANGED << storeVars, argVars, sourceProducts, relatedTags,
                    candidateProducts, oracle, error, acquired, fault >>
    /\ UNCHANGED preVars



-----------------------------------------------------------------------------
(* POST /api/precompute and runPrecomputation, await by await *)

\* the run's try block threw: control is in its catch block
Caught(message) ==
    [ run EXCEPT !.pc = "catch", !.error = message, !.caught = message ]

\* POST /api/precompute: 400 without shop_id; otherwise the run is started,
\* not awaited, and the handler answers at once
PrecomputeRequest ==
    /\ preHttp = 0
    /\ run.pc = "none"
    /\ \E shop \in Shops \cup { "" } :
         IF shop = ""
         THEN /\ preHttp' = 400
              /\ run' = run
         ELSE /\ preHttp' = 200
              /\ run' = [ NoRun EXCEPT !.pc = "connect", !.shop = shop ]
    /\ UNCHANGED << storeVars, reqVars, process_tracker, logged, server, products_json, auxVars >>

\* const client = await pool.connect(), before the try block
RunConnect ==
    /\ run.pc = "connect"
    /\ \E ok \in BOOLEAN :
         run' = IF ok THEN [ run EXCEPT !.pc = "insert", !.held = 1 ]
                ELSE [ run EXCEPT !.pc = "rejected", !.error = StorageError ]
    /\ UNCHANGED << storeVars, reqVars, process_tracker, preHttp, logged, server, products_json, auxVars >>

\* INSERT INTO process_tracker (...) VALUES ($1, 'running', 0, ...) RETURNING id
RunInsert ==
    /\ run.pc = "insert"
    /\ \E ok \in BOOLEAN :
         IF ok
         THEN /\ process_tracker' = InsertRunning(process_tracker, run.shop)
              /\ run' = [ run EXCEPT !.pc = "load",
                                     !.trackerId = Len(process_tracker) + 1 ]
         ELSE /\ process_tracker' = process_tracker
              /\ run' = Caught(StorageError)
    /\ UNCHANGED << storeVars, reqVars, preHttp, logged, server, products_json, auxVars >>

\* STEP 1: loadProductCatalog
RunLoad ==
    /\ run.pc = "load"
    /\ \E ok \in BOOLEAN :
         run' = IF ok THEN [ run EXCEPT !.pc = "count",
                                        !.products = loadProductCatalog(products_json) ]
                ELSE Caught("catalog error")
    /\ UNCHANGED << storeVars, reqVars, process_tracker, preHttp, logged, server, products_json, auxVars >>

\* UPDATE process_tracker SET product_count = $1 WHERE id = $2
RunCount ==
    /\ run.pc = "count"
    /\ \E ok \in BOOLEAN :
         IF ok
         THEN /\ process_tracker' =
                    [ process_tracker EXCEPT ![run.trackerId].product_count =
                                                 Len(run.products) ]
              /\ run' = [ run EXCEPT !.pc = IF run.products = << >>
                                            THEN "save" ELSE "embed" ]
         ELSE /\ process_tracker' = process_tracker
              /\ run' = Caught(StorageError)
    /\ UNCHANGED << storeVars, reqVars, preHttp, logged, server, products_json, auxVars >>

\* STEP 2, batchGenerateEmbeddings: one batch of at most batchSize products,
\* whatever the oracle answers for it
RunEmbed ==
    /\ run.pc = "embed"
    /\ \E outcome \in BatchOutcomes :
         LET last    == Min(run.next + batchSize - 1, Len(run.products))
             batch   == SubSeq(run.products, run.next, last)
             results == batchProcessProductsWithLLM(batch, outcome)
             ids     == { results[i].id : i \in DOMAIN results }
             dataOf(id) ==
                 LET r == results[CHOOSE i \in DOMAIN results : results[i].id = id]
                 IN  [ embedding |-> r.embedding, tags |-> r.tags ]
         IN  run' = [ run EXCEPT
                        !.productData =
                            [ id \in DOMAIN run.productData \cup ids |->
                                IF id \in ids THEN dataOf(id) ELSE run.productData[id] ],
                        !.next = last + 1,
                        !.outcomes = Append(run.outcomes, outcome),
                        !.pc = IF last = Len(run.products) THEN "save" ELSE "embed" ]
    /\ UNCHANGED << storeVars, reqVars, process_tracker, preHttp, logged, server, products_json, auxVars >>

\* STEP 3, saveProductsWithData: one upsert per product; a query that raises
\* an error leaves the earlier upserts in place
RunSave ==
    /\ run.pc = "save"
    /\ \E n \in 0..Len(run.products) :
         /\ products' = saveProductsWithData(products, run.shop, run.products,
                                             run.productData, n)
         /\ run' = IF n = Len(run.products) THEN [ run EXCEPT !.pc = "scores" ]
                   ELSE Caught(StorageError)
    /\ UNCHANGED << tag_graph, reqVars, process_tracker, preHttp, logged, server, products_json, auxVars >>

\* STEP 4, computeProductScores: two UPDATE queries
RunScores ==
    /\ run.pc = "scores"
    /\ \/ /\ products' = products
          /\ run' = Caught(StorageError)
       \/ /\ products' = UpdateMerchantScores(products, run.shop)
          /\ run' = Caught(StorageError)
       \/ \E random \in PurchaseDraws({ id \in DOMAIN products :
                                            products[id].shop_id = run.shop }) :
            /\ products' = UpdatePurchaseScores(UpdateMerchantScores(products, run.shop),
                                                run.shop, random)
            /\ run' = [ run EXCEPT !.pc = "tags" ]
    /\ UNCHANGED << tag_graph, reqVars, process_tracker, preHttp, logged, server, products_json, auxVars >>

\* STEP 5: the distinct tags of the shop, read from the products table
RunTags ==
    /\ run.pc = "tags"
    /\ \E ok \in BOOLEAN :
         run' = IF ok THEN [ run EXCEPT !.pc = "graph",
                                        !.uniqueTags = DistinctTags(products, run.shop) ]
                ELSE Caught(StorageError)
    /\ UNCHANGED << storeVars, reqVars, process_tracker, preHttp, logged, server, products_json, auxVars >>

\* STEP 6: buildTagGraphWithLLM, which catches every error of the call
RunGraph ==
    /\ run.pc = "graph"
    /\ \E outcome \in GraphOutcomes :
         run' = [ run EXCEPT !.pc = "saveGraph",
                             !.graphOutcome = outcome,
                             !.tagGraph = buildTagGraphWithLLM(run.uniqueTags, outcome) ]
    /\ graphCalls' = graphCalls + 1
    /\ UNCHANGED << storeVars, reqVars, process_tracker, preHttp, logged, server, products_json,
                    envVars, rankCalls, poolVars, runs, recommendation_type, proc >>

\* saveTagGraphToDatabase: one upsert per entry with valid children; a query
\* that raises an error leaves the earlier upserts in place, and so does the
\* TypeError of an entry whose children are not an array
RunSaveGraph ==
    /\ run.pc = "saveGraph"
    /\ LET entries == SetToSeq(DOMAIN run.tagGraph)
           Thrown(i) == FilterThrows(run.tagGraph[entries[i]])
       IN  \E n \in 0..Len(entries) :
             /\ \A i \in 1..n : ~Thrown(i)
             /\ n < Len(entries) =>
                    \/ Thrown(n + 1)
                    \/ validChildren(run.tagGraph[entries[n + 1]]) # << >>
             /\ tag_graph' = saveTagGraphToDatabase(tag_graph, run.tagGraph, entries, n)
             /\ run' = IF n = Len(entries) THEN [ run EXCEPT !.pc = "complete" ]
                       ELSE IF Thrown(n + 1) THEN Caught(TypeError)
                       ELSE Caught(StorageError)
    /\ UNCHANGED << products, reqVars, process_tracker, preHttp, logged, server, products_json, auxVars >>

\* UPDATE process_tracker SET status = 'completed', completed_at = ...; the
\* try block is over and the finally block releases the client
RunComplete ==
    /\ run.pc = "complete"
    /\ \E ok \in BOOLEAN :
         IF ok
         THEN /\ process_tracker' = MarkCompleted(process_tracker, run.trackerId)
              /\ run' = [ run EXCEPT !.pc = "resolved", !.held = 0 ]
         ELSE /\ process_tracker' = process_tracker
              /\ run' = Caught(StorageError)
    /\ UNCHANGED << storeVars, reqVars, preHttp, logged, server, products_json, auxVars >>

\* the catch block: if (trackerId) UPDATE process_tracker SET status = 'failed';
\* throw error; the finally block releases the client.  An error of the
\* UPDATE is thrown in place of the first one.
RunCatch ==
    /\ run.pc = "catch"
    /\ \E ok \in BOOLEAN :
         IF run.trackerId = 0
         THEN /\ process_tracker' = process_tracker
              /\ run' = [ run EXCEPT !.pc = "rejected", !.held = 0 ]
         ELSE IF ok
         THEN /\ process_tracker' = MarkFailed(process_tracker, run.trackerId)
              /\ run' = [ run EXCEPT !.pc = "rejected", !.held = 0 ]
         ELSE /\ process_tracker' = process_tracker
              /\ run' = [ run EXCEPT !.pc = "rejected", !.held = 0,
                                     !.error = StorageError ]
    /\ UNCHANGED << storeVars, reqVars, preHttp, logged, server, products_json, auxVars >>

\* the promise of the run settles: a rejection goes to the handler's .catch,
\* which logs it; a rejection nobody handles ends the process
RunSettled ==
    /\ run.pc \in { "resolved", "rejected" }
    /\ run' = [ run EXCEPT !.pc = "ended" ]
    /\ IF run.pc = "resolved"
       THEN UNCHANGED << logged, server >>
       ELSE IF RejectionHandled
       THEN logged' = run.error /\ server' = server
       ELSE logged' = logged /\ server' = "crashed"
    /\ UNCHANGED << storeVars, reqVars, process_tracker, preHttp, products_json, auxVars >>

NextPrecompute ==
    \/ PrecomputeRequest
    \/ RunConnect
    \/ RunInsert
    \/ RunLoad
    \/ RunCount
    \/ RunEmbed
    \/ RunSave
    \/ RunScores
    \/ RunTags
    \/ RunGraph
    \/ RunSaveGraph
    \/ RunComplete
    \/ RunCatch
    \/ RunSettled

\* the stores a precomputation request can meet
InitPrecompute ==
    /\ \E st \in SmallStoreStates :
         /\ products = st.products
         /\ tag_graph = st.tag_graph
    /\ RequestInit
    /\ process_tracker = EarlierRuns
    /\ preHttp = 0
    /\ run = NoRun
    /\ logged = "none"
    /\ server = "up"
    /\ products_json = Catalog
    /\ AuxInit

\* one precomputation request and its background run
SpecPrecompute == InitPrecompute /\ [][NextPrecompute]_vars

\* a store and a products.json of more than one batch
InitPrecomputeLarge ==
    /\ \E st \in SmallStoreStates :
         /\ st.products[2].tags = "jeans"
         /\ st.products[3].shop_id = "s2"
         /\ st.tag_graph = << >>
         /\ products = st.products
         /\ tag_graph = st.tag_graph
    /\ RequestInit
    /\ process_tracker = EarlierRuns
    /\ preHttp = 0
    /\ run = NoRun
    /\ logged = "none"
    /\ server = "up"
    /\ products_json \in LargeCatalogs
    /\ AuxInit

\* the same request and run, on the large files
SpecPrecomputeLarge == InitPrecomputeLarge /\ [][NextPrecompute]_vars

-----------------------------------------------------------------------------
(* The recommendation request *)

Next ==
    \/ Request
    \/ Connect
    \/ Step1
    \/ Step2Connect
    \/ Step2
    \/ Step3
    \/ InvokeOracle
    \/ RankSuccess
    \/ RankFallback

Spec == Init /\ [][Next]_vars

\* the same requests against the large catalogs
SpecLarge == InitLarge /\ [][Next]_vars

-----------------------------------------------------------------------------
(* backend resolution on every environment *)

\* const apiConfig = getRecommendationsAPIConfig()
ResolveBackend ==
    /\ apiConfig = Unresolved
    /\ apiConfig' = getRecommendationsAPIConfig(env)
    /\ UNCHANGED << coreVars, env, callVars, poolVars, runs, recommendation_type, proc >>

NextBackend ==
    \/ ResolveBackend

InitBackend ==
    /\ \E st \in SmallStoreStates :
         /\ st.tag_graph = << >>
         /\ products = st.products
         /\ tag_graph = st.tag_graph
    /\ RequestInit
    /\ RunInit
    /\ env \in Environments
    /\ apiConfig = Unresolved
    /\ CallsInit
    /\ PoolInit
    /\ RunsInit
    /\ TypeInit
    /\ ProcInit

SpecBackend == InitBackend /\ [][NextBackend]_vars

-----------------------------------------------------------------------------
(* one server: a precomputation and then a recommendation request on the
   store the run left, or the request alone *)

RunAtRest == run.pc \in { "none", "ended" }

\* a step of the recommendation request while no run is in progress
ServeRecommendation == RunAtRest /\ Next

\* a step of the precomputation before the request arrives
ServePrecompute == pc = "idle" /\ NextPrecompute

NextServer ==
    \/ ServeRecommendation
    \/ ServePrecompute

InitServer ==
    /\ \E st \in SmallStoreStates :
         /\ st.products[2].tags = "jeans"
         /\ st.products[3].shop_id = "s2"
         /\ st.tag_graph = << >>
         /\ products = st.products
         /\ tag_graph = st.tag_graph
    /\ RequestInit
    /\ process_tracker = EarlierRuns
    /\ preHttp = 0
    /\ run = NoRun
    /\ logged = "none"
    /\ server = "up"
    /\ products_json = Catalog
    /\ AuxInit

SpecServer == InitServer /\ [][NextServer]_vars

-----------------------------------------------------------------------------
(* concurrent recommendation requests on one pool: pool.connect() resolves
   when a client is idle or the pool may still grow, and waits otherwise
   (config.database sets no connectionTimeoutMillis) *)

\* POST /api/recommendations arrives and getRecommendations is called
Arrive(r) ==
    /\ requests[r].pc = "idle"
    /\ requests' = [ requests EXCEPT ![r].pc = "connect" ]
    /\ UNCHANGED << poolSize, poolRest >>

\* const client = await pool.connect() in getRecommendations
AcquireClient(r) ==
    /\ requests[r].pc = "connect"
    /\ InUse(requests) < poolSize
    /\ requests' = [ requests EXCEPT ![r].pc = "step1", ![r].client = TRUE ]
    /\ UNCHANGED << poolSize, poolRest >>

\* STEP 1: the source products resolve, or the request throws and its
\* finally block releases the client
QuerySources(r) ==
    /\ requests[r].pc = "step1"
    /\ \E found \in BOOLEAN :
         requests' = IF found
                     THEN [ requests EXCEPT ![r].pc = "tagConnect" ]
                     ELSE [ requests EXCEPT ![r].pc = "failed", ![r].client = FALSE ]
    /\ UNCHANGED << poolSize, poolRest >>

\* const client = await pool.connect() in getRelatedTags, while the request
\* holds the client of getRecommendations
AcquireTagClient(r) ==
    /\ requests[r].pc = "tagConnect"
    /\ InUse(requests) < poolSize
    /\ requests' = [ requests EXCEPT ![r].pc = "step2", ![r].tagClient = TRUE ]
    /\ UNCHANGED << poolSize, poolRest >>

\* the finally block of getRelatedTags
ReleaseTagClient(r) ==
    /\ requests[r].pc = "step2"
    /\ requests' = [ requests EXCEPT ![r].pc = "step3", ![r].tagClient = FALSE ]
    /\ UNCHANGED << poolSize, poolRest >>

\* steps 3 and 4 and the finally block of getRecommendations
Finish(r) ==
    /\ requests[r].pc = "step3"
    /\ requests' = [ requests EXCEPT ![r].pc = "done", ![r].client = FALSE ]
    /\ UNCHANGED << poolSize, poolRest >>

NextPool ==
    \E r \in RequestNames :
      \/ Arrive(r)
      \/ AcquireClient(r)
      \/ QuerySources(r)
      \/ AcquireTagClient(r)
      \/ ReleaseTagClient(r)
      \/ Finish(r)

InitPool ==
    /\ \E st \in SmallStoreStates :
         /\ st.products[2].tags = "jeans"
         /\ st.products[3].shop_id = "s2"
         /\ st.tag_graph = << >>
         /\ products = st.products
         /\ tag_graph = st.tag_graph
    /\ RequestInit
    /\ RunInit
    /\ EnvInit
    /\ CallsInit
    /\ RunsInit
    /\ TypeInit
    /\ ProcInit
    /\ poolSize \in 1..MaxPoolSize
    /\ requests = [ r \in RequestNames |-> NotArrived ]

SpecPool == InitPool /\ [][NextPool]_vars

-----------------------------------------------------------------------------
(* concurrent runs of runPrecomputation, await by await, as far as they write
   process_tracker; the steps between the product count and the completion
   write the products and tag_graph tables and are taken by their outcome *)

\* POST /api/precompute calls runPrecomputation(shop_id) without awaiting it
BeginRun(k) ==
    /\ runs[k].pc = "none"
    /\ \E shop \in Shops : runs' = [ runs EXCEPT ![k].pc = "connect", ![k].shop = shop ]
    /\ UNCHANGED << process_tracker, runsRest >>

\* const client = await pool.connect(), before the try block
ConnectRun(k) ==
    /\ runs[k].pc = "connect"
    /\ \E ok \in BOOLEAN :
         runs' = [ runs EXCEPT ![k].pc = IF ok THEN "insert" ELSE "ended" ]
    /\ UNCHANGED << process_tracker, runsRest >>

\* INSERT INTO process_tracker ... RETURNING id; trackerId = the new id
InsertTracker(k) ==
    /\ runs[k].pc = "insert"
    /\ \E ok \in BOOLEAN :
         IF ok
         THEN /\ process_tracker' = InsertRunning(process_tracker, runs[k].shop)
              /\ runs' = [ runs EXCEPT ![k].pc = "load",
                                       ![k].trackerId = Len(process_tracker) + 1 ]
         ELSE /\ process_tracker' = process_tracker
              /\ runs' = [ runs EXCEPT ![k].pc = "catch" ]
    /\ UNCHANGED runsRest

\* loadProductCatalog, then UPDATE process_tracker SET product_count = $1
\* WHERE id = $2
CountProducts(k) ==
    /\ runs[k].pc = "load"
    /\ \E ok \in BOOLEAN :
         IF ok
         THEN /\ process_tracker' =
                    [ process_tracker EXCEPT ![runs[k].trackerId].product_count =
                                                 Len(loadProductCatalog(products_json)) ]
              /\ runs' = [ runs EXCEPT ![k].pc = "process" ]
         ELSE /\ process_tracker' = process_tracker
              /\ runs' = [ runs EXCEPT ![k].pc = "catch" ]
    /\ UNCHANGED runsRest

\* steps 2 to 6: they return, or one of them throws
ProcessProducts(k) ==
    /\ runs[k].pc = "process"
    /\ \E ok \in BOOLEAN :
         runs' = [ runs EXCEPT ![k].pc = IF ok THEN "complete" ELSE "catch" ]
    /\ UNCHANGED << process_tracker, runsRest >>

\* UPDATE process_tracker SET status = 'completed', ... WHERE id = $1
CompleteTracker(k) ==
    /\ runs[k].pc = "complete"
    /\ \E ok \in BOOLEAN :
         IF ok
         THEN /\ process_tracker' = MarkCompleted(process_tracker, runs[k].trackerId)
              /\ runs' = [ runs EXCEPT ![k].pc = "ended" ]
         ELSE /\ process_tracker' = process_tracker
              /\ runs' = [ runs EXCEPT ![k].pc = "catch" ]
    /\ UNCHANGED runsRest

\* the catch block: if (trackerId) UPDATE process_tracker SET status = 'failed'
\* WHERE id = trackerId, an UPDATE that can raise an error itself
CatchRun(k) ==
    /\ runs[k].pc = "catch"
    /\ \E ok \in BOOLEAN :
         /\ process_tracker' = IF runs[k].trackerId # 0 /\ ok
                               THEN MarkFailed(process_tracker, runs[k].trackerId)
                               ELSE process_tracker
         /\ runs' = [ runs EXCEPT ![k].pc = "ended" ]
    /\ UNCHANGED runsRest

NextRuns ==
    \E k \in RunNames :
      \/ BeginRun(k)
      \/ ConnectRun(k)
      \/ InsertTracker(k)
      \/ CountProducts(k)
      \/ ProcessProducts(k)
      \/ CompleteTracker(k)
      \/ CatchRun(k)

InitRuns ==
    /\ \E st \in SmallStoreStates :
         /\ st.products[2].tags = "jeans"
         /\ st.products[3].shop_id = "s2"
         /\ st.tag_graph = << >>
         /\ products = st.products
         /\ tag_graph = st.tag_graph
    /\ RequestInit
    /\ process_tracker = EarlierRuns
    /\ preHttp = 0
    /\ run = NoRun
    /\ logged = "none"
    /\ server = "up"
    /\ products_json = Catalog
    /\ EnvInit
    /\ CallsInit
    /\ PoolInit
    /\ RunsInit
    /\ TypeInit
    /\ ProcInit

SpecRuns == InitRuns /\ [][NextRuns]_vars

-----------------------------------------------------------------------------
(* one request for every recommendation_type a client can send *)

InitTypes ==
    /\ \E st \in SmallStoreStates :
         /\ st.products[2].tags = "jeans"
         /\ st.products[3].tags = "sneakers"
         /\ "jeans" \in DOMAIN st.tag_graph
         /\ products = st.products
         /\ tag_graph = st.tag_graph
    /\ RequestInit
    /\ RunInit
    /\ EnvInit
    /\ CallsInit
    /\ PoolInit
    /\ RunsInit
    /\ recommendation_type \in RecommendationTypes
    /\ ProcInit

SpecTypes == InitTypes /\ [][Next]_vars

-----------------------------------------------------------------------------
(* signals sent to a server with precomputation runs in flight *)

\* process.on('SIGTERM' | 'SIGINT', () => shutdown(signal))
Signal ==
    /\ proc.pc # "exited"
    /\ \E signal \in Signals : proc' = shutdown(proc, signal)
    /\ UNCHANGED << coreVars, envVars, callVars, poolVars, runs, recommendation_type >>

\* pool.end() resolves or rejects
CloseSettles ==
    /\ proc.pc = "closing"
    /\ \E rejected \in BOOLEAN : proc' = closed(proc, rejected)
    /\ UNCHANGED << coreVars, envVars, callVars, poolVars, runs, recommendation_type >>

\* the runs go on until the process exits
WhileUp == proc.pc # "exited" /\ NextRuns

NextShutdown ==
    \/ Signal
    \/ CloseSettles
    \/ WhileUp

InitShutdown ==
    /\ \E st \in SmallStoreStates :
         /\ st.products[2].tags = "jeans"
         /\ st.products[3].shop_id = "s2"
         /\ st.tag_graph = << >>
         /\ products = st.products
         /\ tag_graph = st.tag_graph
    /\ RequestInit
    /\ process_tracker = EarlierRuns
    /\ preHttp = 0
    /\ run = NoRun
    /\ logged = "none"
    /\ server = "up"
    /\ products_json = Catalog
    /\ AuxInit

SpecShutdown == InitShutdown /\ [][NextShutdown]_vars

-----------------------------------------------------------------------------
(* Properties *)

Ranked == pc = "done" /\ path \in { "success", "fallback" }

PoolIds == { candidateProducts[i].id : i \in DOMAIN candidateProducts }

\* The oracle outcomes that are failures: a network error, a non-2xx status,
\* no API key, text holding no JSON object, invalid JSON, an id list that
\* cannot be iterated.
OracleFailure(o) ==
    \/ o.backend = "none"
    \/ o.call \in { "threw", "non2xx" }
    \/ /\ o.call = "ok"
       /\ \/ o.content.kind \in { "prose", "badjson" }
          \/ /\ o.content.kind = "object"
             /\ "scalar" \in { o.content.upsell.t, o.content.crosssell.t }

\* C1: whatever way the oracle fails, a request with a non-empty candidate
\* pool ends with the result of the deterministic fallback and no error
\* reaches the caller of getRecommendations.
C1_OracleFailureFallsBack ==
    /\ (oracle # NoOracle) => (pc # "failed" /\ error = "none")
    /\ (Ranked /\ OracleFailure(oracle)) =>
          /\ path = "fallback"
          /\ result = [ upsell    |-> FinalSlice(EntriesWhere(
                                        FallbackEntries(sourceProducts, candidateProducts), TRUE)),
                        crosssell |-> FinalSlice(EntriesWhere(
                                        FallbackEntries(sourceProducts, candidateProducts), FALSE)) ]

\* an answer whose upsell ids match candidates and whose crosssell value is
\* not iterable still ends in the fallback
C1_Witness ==
    /\ Ranked
    /\ oracle.call = "ok"
    /\ oracle.content.kind = "object"
    /\ oracle.content.upsell.t = "list"
    /\ Len(oracle.content.upsell.ids) > 0
    /\ oracle.content.crosssell.t = "scalar"
    /\ path = "fallback"
    /\ Len(result.upsell) + Len(result.crosssell) > 0

\* C2: an oracle call that succeeds with no text content ends in the
\* fallback, on the direct HTTP path and on the SDK path.
C2_EmptyResponseFallsBack ==
    (Ranked /\ oracle.call = "ok" /\ oracle.content.kind \in { "missing", "empty" }) =>
        /\ path = "fallback"
        /\ result = FallbackResult(sourceProducts, candidateProducts)

\* C3: the candidate pool holds no product whose id is among the request's
\* source product ids.
C3_PoolExcludesSources ==
    \A i \in DOMAIN candidateProducts :
        candidateProducts[i].id \notin SeqToSet(productIds)

\* a source product that meets every other condition of the query is in the
\* store, and the pool is not empty
C3_Witness ==
    /\ pc = "done"
    /\ candidateProducts # << >>
    /\ \E id \in DOMAIN products :
         /\ id \in SeqToSet(productIds)
         /\ products[id].shop_id = shopId
         /\ products[id].status = "active"
         /\ products[id].stock > 0
         /\ products[id].tags \in SeqToSet(relatedTags)

\* the children, in the tag graph, of the source products' tags
RelatedTagSet ==
    UNION { SeqToSet(tag_graph[t]) :
              t \in { sourceProducts[i].tags : i \in DOMAIN sourceProducts }
                      \cap DOMAIN tag_graph }

\* C4: every product of the candidate pool belongs to the requested shop, is
\* active, is in stock, and has a primary tag related to a source tag.
C4_PoolIsEligible ==
    \A i \in DOMAIN candidateProducts :
        /\ candidateProducts[i].shop_id = shopId
        /\ candidateProducts[i].status = "active"
        /\ candidateProducts[i].stock > 0
        /\ candidateProducts[i].tags \in RelatedTagSet

\* the store holds a product with a related tag that is not active, and the
\* pool is not empty
C4_Witness ==
    /\ pc = "done"
    /\ candidateProducts # << >>
    /\ \E id \in DOMAIN products :
         /\ products[id].status # "active"
         /\ products[id].shop_id = shopId
         /\ products[id].stock > 0
         /\ products[id].tags \in RelatedTagSet

\* the products of the store that meet the conditions of the candidate
\* query, read off the store
EligibleIds ==
    { id \in DOMAIN products :
        /\ products[id].shop_id = shopId
        /\ id \notin SeqToSet(productIds)
        /\ products[id].status = "active"
        /\ products[id].stock > 0
        /\ products[id].tags \in SeqToSet(relatedTags) }

C6_PoolWithinConfiguredSize ==
    Len(candidateProducts) <= candidate_pool_size

\* C7: on the oracle path and on the fallback path each returned list has at
\* most final_recommendations entries, counted after variant expansion.
C7_ListsWithinFinalCount ==
    /\ Len(result.upsell) <= final_recommendations
    /\ Len(result.crosssell) <= final_recommendations

\* the oracle's ids expand to more entries than the final count
C7_Witness ==
    /\ Ranked
    /\ path = "success"
    /\ Len(ExpandIds(candidateProducts, oracle.content.upsell.ids, 90)) > final_recommendations
    /\ Len(result.upsell) = final_recommendations

\* C8: every returned entry has a parent product that is in the candidate
\* pool and is not a source product, whatever ids the oracle returns.
C8_EntriesComeFromPool ==
    \A list \in { result.upsell, result.crosssell } :
        \A i \in DOMAIN list :
            /\ list[i].id \in PoolIds
            /\ list[i].id \notin SeqToSet(productIds)

\* the oracle named a stored source product next to a candidate
C8_Witness ==
    /\ Ranked
    /\ path = "success"
    /\ \E i \in DOMAIN oracle.content.upsell.ids :
         /\ oracle.content.upsell.ids[i].rep = "num"
         /\ oracle.content.upsell.ids[i].v \in SeqToSet(productIds) \cap DOMAIN products
    /\ result.upsell # << >>

EntryKeys(list) == { << list[i].id, list[i].variant_id >> : i \in DOMAIN list }

\* C9: within a returned list no (product id, variant id) pair appears more
\* than once, for any oracle response.
C9_ListsHaveNoDuplicates ==
    \A list \in { result.upsell, result.crosssell } :
        \A i, j \in DOMAIN list :
            (list[i].id = list[j].id /\ list[i].variant_id = list[j].variant_id) => i = j

\* C10: no (product id, variant id) pair is in both the upsell list and the
\* crosssell list of a response.
C10_ListsAreDisjoint ==
    EntryKeys(result.upsell) \cap EntryKeys(result.crosssell) = {}

\* the arithmetic sum of the source products' prices
RECURSIVE SumOfPrices(_)
SumOfPrices(sources) ==
    IF sources = << >> THEN 0 ELSE Head(sources).price + SumOfPrices(Tail(sources))

\* an entry's category is the category of a source product and its price is
\* at least the arithmetic mean of the source products' prices
UpsellByMean(entry) ==
    /\ \E i \in DOMAIN sourceProducts : sourceProducts[i].category = entry.category
    /\ entry.price * Len(sourceProducts) >= SumOfPrices(sourceProducts)

\* C11: on the fallback path an entry is in the upsell list if and only if
\* its candidate shares a category with a source product and its variant
\* price is at least the arithmetic mean of the source prices; every other
\* entry is in the crosssell list.
C11_FallbackClassifiesByMean ==
    (pc = "done" /\ path = "fallback") =>
        /\ \A i \in DOMAIN result.upsell : UpsellByMean(result.upsell[i])
        /\ \A i \in DOMAIN result.crosssell : ~UpsellByMean(result.crosssell[i])

\* where an entry sits in the expansion of the pool: the position of its
\* candidate in the pool, then the position of its variant in the candidate
PoolIndex(entry) ==
    CHOOSE i \in DOMAIN candidateProducts : candidateProducts[i].id = entry.id

VariantIndex(entry) ==
    CHOOSE k \in DOMAIN candidateProducts[PoolIndex(entry)].variants :
        candidateProducts[PoolIndex(entry)].variants[k].id = entry.variant_id

Before(a, b) ==
    \/ PoolIndex(a) < PoolIndex(b)
    \/ PoolIndex(a) = PoolIndex(b) /\ VariantIndex(a) < VariantIndex(b)

\* C13: the fallback draws its entries from the first 20 candidates of the
\* pool only; each list keeps the order of the expansion (pool order, then
\* stored variant order), and an entry of the expansion is missing from the
\* result only behind a list that the final count cut.
C13_FallbackKeepsPoolOrder ==
    (pc = "done" /\ path = "fallback") =>
        /\ \A list \in { result.upsell, result.crosssell } :
             /\ \A j \in DOMAIN list :
                  /\ list[j].id \in PoolIds
                  /\ PoolIndex(list[j]) <= FallbackCandidates
                  /\ list[j].variant_id \in
                       { candidateProducts[PoolIndex(list[j])].variants[k].id :
                           k \in DOMAIN candidateProducts[PoolIndex(list[j])].variants }
             /\ \A j \in 1..(Len(list) - 1) : Before(list[j], list[j + 1])
        /\ \A i \in 1..Min(FallbackCandidates, Len(candidateProducts)) :
             \A k \in DOMAIN candidateProducts[i].variants :
                LET key == << candidateProducts[i].id, candidateProducts[i].variants[k].id >>
                IN  \/ key \in EntryKeys(result.upsell) \cup EntryKeys(result.crosssell)
                    \/ \E list \in { result.upsell, result.crosssell } :
                         /\ Len(list) = final_recommendations
                         /\ \A j \in DOMAIN list :
                              \/ PoolIndex(list[j]) < i
                              \/ PoolIndex(list[j]) = i /\ VariantIndex(list[j]) < k

\* the pool holds more than 20 candidates, some with several variants, and
\* one list came out shorter than the final count although candidates behind
\* the twentieth would have filled it
C13_Witness ==
    /\ pc = "done"
    /\ path = "fallback"
    /\ Len(candidateProducts) > FallbackCandidates
    /\ \E i \in 1..FallbackCandidates : Len(candidateProducts[i].variants) > 1
    /\ result.upsell # << >>
    /\ Len(result.upsell) < final_recommendations
    /\ Len(result.crosssell) = final_recommendations
    /\ \E i \in (FallbackCandidates + 1)..Len(candidateProducts) :
         /\ isSameCategory(candidateProducts[i], sourceProducts)
         /\ isHigherPrice(candidateProducts[i].variants[1], sourceProducts)

\* The (product id, variant id) pairs the ids of an oracle list stand for:
\* for each id in turn that is a number, or the text of a number, equal to the
\* id of a pool product, that product's stored variants in their order
RECURSIVE ExpectedKeys(_)
ExpectedKeys(ids) ==
    IF ids = << >> THEN << >>
    ELSE (IF Head(ids).rep \in { "num", "str" } /\ Head(ids).v \in PoolIds
          THEN [ k \in DOMAIN products[Head(ids).v].variants |->
                   << Head(ids).v, products[Head(ids).v].variants[k].id >> ]
          ELSE << >>)
         \o ExpectedKeys(Tail(ids))

KeysOf(list) == [ j \in DOMAIN list |-> << list[j].id, list[j].variant_id >> ]

\* C14: when the oracle answers with two id lists, each returned list is the
\* first final_recommendations entries of the concatenation, in the order of
\* the oracle's ids, of the variants of every id that equals a pool id as a
\* number; ids that match no candidate add nothing and raise no error.
C14_SuccessExpandsInOracleOrder ==
    /\ (pc = "done" /\ path = "success") =>
          /\ KeysOf(result.upsell) =
               Slice(ExpectedKeys(oracle.content.upsell.ids), final_recommendations)
          /\ KeysOf(result.crosssell) =
               Slice(ExpectedKeys(oracle.content.crosssell.ids), final_recommendations)
    /\ (/\ pc \in { "done", "failed" }
        /\ oracle.call = "ok"
        /\ oracle.content.kind = "object"
        /\ oracle.content.upsell.t # "scalar"
        /\ oracle.content.crosssell.t # "scalar") =>
          (pc = "done" /\ path = "success" /\ error = "none" /\ http = 200)

\* the oracle returned an id that matches no candidate, then the id of the
\* last candidate of the pool as a string
C14_Witness ==
    /\ pc = "done"
    /\ path = "success"
    /\ Len(candidateProducts) > 1
    /\ Len(oracle.content.upsell.ids) = 2
    /\ \/ oracle.content.upsell.ids[1].rep = "nan"
       \/ oracle.content.upsell.ids[1].v \notin PoolIds
    /\ oracle.content.upsell.ids[2] = StrId(candidateProducts[Len(candidateProducts)].id)
    /\ result.upsell # << >>
    /\ result.upsell[1].id = candidateProducts[Len(candidateProducts)].id

\* C15: once the candidate query has answered, an empty related-tag set or
\* an empty answer means the request is over with empty upsell and crosssell
\* lists, no error, and no call of the ranking oracle.
C15_NoCandidatesNoOracle ==
    (/\ pc \in { "step4", "parse", "done" }
     /\ (relatedTags = << >> \/ candidateProducts = << >>)) =>
        /\ pc = "done"
        /\ path = "empty"
        /\ result = EmptyResult
        /\ error = "none"
        /\ http = 200
        /\ oracle = NoOracle

\* no tag is related to the source tags, while the shop holds active,
\* in-stock products other than the source products
C15_Witness ==
    /\ pc = "done"
    /\ path = "empty"
    /\ fault = "none"
    /\ relatedTags = << >>
    /\ \E id \in DOMAIN products :
         /\ products[id].shop_id = shopId
         /\ id \notin SeqToSet(productIds)
         /\ products[id].status = "active"
         /\ products[id].stock > 0

\* a request whose body passed as shop_id and an array of integers
WellFormed == pc # "idle" /\ body.shop_id /\ body.product_ids = "integers"

Finished == pc \in { "done", "failed", "rejected" }

SomeIdResolves == SeqToSet(productIds) \cap DOMAIN products # {}

\* C16: a well-formed request ends in an error only when none of its source
\* ids resolves to a stored product; the error is then the no-products-found
\* error and neither the tag graph nor the oracle was consulted.  When an id
\* resolves the request returns a result.
C16_ErrorOnlyWhenNoSource ==
    WellFormed =>
        /\ (pc = "failed") =>
              /\ ~SomeIdResolves
              /\ error = "No products found for given IDs"
              /\ http = 500
              /\ acquired <= 1
              /\ relatedTags = << >>
              /\ oracle = NoOracle
        /\ (Finished /\ SomeIdResolves) => (pc = "done" /\ http = 200)

\* the storage operations of a request whose error reaches the caller
PropagatingFaults == { "connect", "source", "tagConnect", "candidates" }

\* C16 as amended: a well-formed request ends in an error only when none of
\* its source ids resolves or when acquiring a connection, the source lookup
\* or the candidate query raised an error.  When no id resolves the error is
\* the no-products-found error and neither the tag graph nor the oracle was
\* consulted.  When an id resolves and none of these operations raised an
\* error, the request returns a result.
C16_ErrorOnlyWhenNoSourceOrStorage ==
    WellFormed =>
        /\ (pc = "failed") =>
              /\ http = 500
              /\ oracle = NoOracle
              /\ \/ /\ fault \in PropagatingFaults
                    /\ error = StorageError
                 \/ /\ fault = "none"
                    /\ ~SomeIdResolves
                    /\ error = "No products found for given IDs"
                    /\ acquired <= 1
                    /\ relatedTags = << >>
        /\ (Finished /\ SomeIdResolves /\ fault \notin PropagatingFaults) =>
              (pc = "done" /\ http = 200 /\ error = "none")

\* a request naming a stored product of another shop and an id that is not
\* stored returned a result
C16_Witness ==
    /\ WellFormed
    /\ pc = "done"
    /\ MissingId \in SeqToSet(productIds)
    /\ SomeIdResolves
    /\ \E id \in SeqToSet(productIds) \cap DOMAIN products : products[id].shop_id # shopId
    /\ http = 200

\* C17: a storage error raised during any step of a request (source lookup,
\* tag-graph lookup, candidate query) reaches the caller as an error and is
\* never turned into a successful result.
C17_StorageErrorsPropagate ==
    (Finished /\ fault # "none") =>
        /\ pc = "failed"
        /\ error # "none"
        /\ http = 500

\* C18: a request holds at most one pooled connection at any time, and holds
\* none once it has finished, whichever way it finished.
C18_OneConnectionPerRequest ==
    /\ held <= 1
    /\ Finished => held = 0

\* C19: a body without shop_id, or whose product_ids is absent, no array,
\* empty or holds an element that is no integer, is answered with 400;
\* getRecommendations is not called and no connection is acquired.
C19_MalformedBodyRejected ==
    (pc # "idle" /\ (~body.shop_id \/ body.product_ids # "integers")) =>
        /\ pc = "rejected"
        /\ http = 400
        /\ acquired = 0

\* C20: POST /api/precompute with a shop_id is answered 200 as soon as the
\* run is started, and the answer stays 200 whatever becomes of the run;
\* without shop_id it is answered 400 and no run is started.  No outcome of
\* the run produces another status or ends the server process.
C20_PrecomputeAnswersAtOnce ==
    /\ preHttp \in { 0, 200, 400 }
    /\ (run.pc # "none") => (preHttp = 200)
    /\ (preHttp = 200) => (run.pc # "none")
    /\ (preHttp = 400) => (run = NoRun /\ process_tracker = EarlierRuns)
    /\ server = "up"

\* the run could not obtain a connection: it ended with the error, which
\* the handler has logged, after the request had been answered 200
C20_Witness ==
    /\ run.pc = "ended"
    /\ run.trackerId = 0
    /\ run.error = StorageError
    /\ process_tracker = EarlierRuns
    /\ logged = StorageError
    /\ preHttp = 200

-----------------------------------------------------------------------------
(* The process_tracker row of a run *)

\* the run has returned or thrown, and its promise has settled
RunOver == run.pc = "ended"

\* the row the run inserted
OwnRow == process_tracker[run.trackerId]

TrackerStep ==
    /\ Len(process_tracker') \in { Len(process_tracker), Len(process_tracker) + 1 }
    /\ \A i \in DOMAIN process_tracker :
         \/ process_tracker'[i].status = process_tracker[i].status
         \/ /\ process_tracker[i].status = "running"
            /\ process_tracker'[i].status \in { "completed", "failed" }
    /\ \A i \in DOMAIN process_tracker' \ DOMAIN process_tracker :
         process_tracker'[i].status = "running"

C22_FailureMarksTrackerFailed ==
    (RunOver /\ run.error # "none") =>
        /\ run.trackerId # 0
        /\ OwnRow.status = "failed"
        /\ run.error = run.caught
        /\ logged = run.caught

-----------------------------------------------------------------------------
(* What a completed run has done *)

\* the run's tracker row says 'completed'
RunCompleted == run.trackerId # 0 /\ OwnRow.status = "completed"

\* the rows of the run's shop
ShopRows == { id \in DOMAIN products : products[id].shop_id = run.shop }

\* C23: a tracker row is 'completed' only if its run loaded the catalog,
\* processed every product and upserted it into the shop, recomputed the
\* scores of the shop (the upserted rows included), read the distinct tags
\* from the table as the upsert left it, built the tag graph from those tags
\* and saved every entry of it that has valid children.
C23_CompletedOnlyAfterAllSteps ==
    RunCompleted =>
        /\ run.products = loadProductCatalog(products_json)
        /\ \A i \in DOMAIN run.products :
             LET p == run.products[i]
             IN  /\ p.id \in DOMAIN run.productData
                 /\ p.id \in ShopRows
                 /\ products[p.id].stock = p.stock
                 /\ products[p.id].status = p.status
                 /\ \/ products[p.id].tags = "product"
                    \/ products[p.id].tags = run.productData[p.id].tags[1]
        /\ \A id \in ShopRows :
             /\ products[id].merchant_score = MerchantScoreOf(products[id].stock)
             /\ products[id].purchase_score \in PurchaseScores
        /\ run.uniqueTags = { products[id].tags : id \in ShopRows }
        /\ DOMAIN run.tagGraph \subseteq run.uniqueTags
        /\ \A t \in DOMAIN run.tagGraph :
             LET kept == SelectSeq(run.tagGraph[t].items, LAMBDA c : c # "")
             IN  kept # << >> => (t \in DOMAIN tag_graph /\ tag_graph[t] = kept)

\* a run for shop s2 completed: product 2, stored for s1 before, and the new
\* product 5 are rows of s2, and the graph the oracle gave is stored
C23_Witness ==
    /\ RunCompleted
    /\ run.shop = "s2"
    /\ 2 \in DOMAIN products /\ products[2].shop_id = "s2"
    /\ 5 \in DOMAIN products /\ products[5].shop_id = "s2"
    /\ products[5].merchant_score = 10
    /\ Cardinality(run.uniqueTags) > 1
    /\ \E t \in DOMAIN run.tagGraph : t \in DOMAIN tag_graph

\* C24: the completed_at of a tracker row is set if and only if the status of
\* the row is 'completed'; a row that is 'running' or 'failed' has it unset.
C24_CompletedAtIffCompleted ==
    \A i \in DOMAIN process_tracker :
        process_tracker[i].completed_at <=> (process_tracker[i].status = "completed")

\* a run failed after its scoring step: its row is 'failed' without
\* completed_at, the row of the earlier run is 'completed' with it
C24_Witness ==
    /\ RunOver
    /\ run.trackerId # 0
    /\ run.uniqueTags # {}
    /\ OwnRow.status = "failed" /\ ~OwnRow.completed_at
    /\ process_tracker[1].status = "completed" /\ process_tracker[1].completed_at

-----------------------------------------------------------------------------
(* The batches of a run *)

\* batchGenerateEmbeddings has returned
Embedded == run.products # << >> /\ run.next > Len(run.products)

\* the number of batches of the catalog the run loaded
Batches == (Len(run.products) + batchSize - 1) \div batchSize

\* no query of the run and no read of products.json raised an error
StorageHealthy ==
    /\ run.caught \notin { StorageError, "catalog error" }
    /\ run.error # StorageError

\* whatever the oracle did for each batch, every batch was processed and
\* every product has an entry with an embedding and a tag list
EveryProductHasData ==
    /\ (run.outcomes # << >> /\ ~Embedded) => run.pc = "embed"
    /\ Embedded =>
         /\ Len(run.outcomes) = Batches
         /\ \A i \in DOMAIN run.products :
              /\ run.products[i].id \in DOMAIN run.productData
              /\ run.productData[run.products[i].id].embedding # "NULL"
              /\ run.productData[run.products[i].id].tags \in Seq(STRING)

\* C25: whatever the oracle does for each batch (failure or malformed
\* answer), batchGenerateEmbeddings returns an entry for every product of the
\* catalog, every later batch is still processed, and a run that meets no
\* storage error ends with its tracker row 'completed'.
C25_BatchFailuresNeverAbort ==
    /\ EveryProductHasData
    /\ (RunOver /\ run.outcomes # << >> /\ StorageHealthy) => RunCompleted

-----------------------------------------------------------------------------
(* The rows a completed run leaves *)

\* what the oracle did for the batch of the i-th product of the catalog
OutcomeOf(i) == run.outcomes[((i - 1) \div batchSize) + 1]

\* the primary tag the i-th product of the catalog is to have
ExpectedTag(i) ==
    LET p == run.products[i]
    IN  CASE OutcomeOf(i) = "tags" -> OracleTag(p.id)
          [] OutcomeOf(i) = "emptyTags" -> "product"
          [] OTHER -> IF p.category # "" THEN toLowerCase(p.category)
                      ELSE IF p.title # "" THEN toLowerCase(p.title)
                      ELSE "product"

\* C26: after a completed run every product of the catalog is stored with a
\* non-null embedding and one non-empty primary tag: the first tag the oracle
\* gave for its id; when the oracle gave no entry for it or failed, the
\* lowercased category, else a word of the title, else 'product'; and
\* 'product' also when the oracle gave it an empty tag list.
C26_OnePrimaryTagPerProduct ==
    RunCompleted =>
        \A i \in DOMAIN run.products :
            LET id == run.products[i].id
            IN  /\ id \in DOMAIN products
                /\ products[id].embedding # "NULL"
                /\ products[id].tags # ""
                /\ products[id].tags = ExpectedTag(i)

\* a completed run whose oracle gave empty tag lists for the first batch and
\* no entries for the second: a product with a category is stored 'product'
\* in the first batch and with its lowercased category in the second
C26_Witness ==
    /\ RunCompleted
    /\ run.outcomes = << "emptyTags", "noEntry" >>
    /\ run.products[3].category = "Tops" /\ products[3].tags = "product"
    /\ run.products[51].category = "Tops" /\ products[51].tags = "tops"

-----------------------------------------------------------------------------
(* The tag graph of a run *)

\* C27: whatever the oracle does on the tag-graph prompt (failed call, no
\* JSON array, invalid JSON, entries whose 'related' is missing or is not a
\* list of strings), the graph is empty or partial and the run is not
\* aborted: a run that meets no storage error ends 'completed'.
C27_GraphFailuresNeverAbort ==
    (RunOver /\ run.graphOutcome # "none" /\ StorageHealthy) => RunCompleted

\* C28: the oracle answering with tags of the list it was given only, after
\* a completed run the tag_graph table references no tag outside the distinct
\* tags the run gave the builder, neither as tag_name nor as child, and has
\* no more rows than the products of the shop have distinct primary tags.
C28_GraphOnlyOfLatestTags ==
    RunCompleted =>
        /\ \A t \in DOMAIN tag_graph :
             /\ t \in run.uniqueTags
             /\ \A k \in DOMAIN tag_graph[t] : tag_graph[t][k] \in run.uniqueTags
        /\ Cardinality(DOMAIN tag_graph)
               <= Cardinality({ products[id].tags : id \in ShopRows })

-----------------------------------------------------------------------------
(* The related tags of a request *)

\* getRelatedTags has returned the rows of its query
RelatedTagsRead == pc = "step3" /\ fault # "tagQuery"

\* the source tags that have a tag_graph row, by their place in the call
Sourced == { i \in DOMAIN SourceTags(sourceProducts) :
               SourceTags(sourceProducts)[i] \in DOMAIN tag_graph }

RowOf(i) == tag_graph[SourceTags(sourceProducts)[i]]

\* the children of the source tags
AllChildren == UNION { { RowOf(i)[k] : k \in DOMAIN RowOf(i) } : i \in Sourced }

\* the places of a child c in a row
PlacesIn(row, c) == { k \in DOMAIN row : row[k] = c }

\* the first place of a child c: the first source tag that has it, and its
\* first index in the row of that tag
FirstPlace(c) ==
    LET tags == SourceTags(sourceProducts)
        having == { i \in DOMAIN tags :
                      tags[i] \in DOMAIN tag_graph /\ PlacesIn(tag_graph[tags[i]], c) # {} }
        i == CHOOSE i \in having : \A j \in having : i <= j
        places == PlacesIn(tag_graph[tags[i]], c)
    IN  << i, CHOOSE k \in places : \A m \in places : k <= m >>

\* the first place of c is before the first place of d: source tags in
\* order, children in stored order
DiscoveredBefore(c, d) ==
    LET pc1 == FirstPlace(c)
        pd1 == FirstPlace(d)
    IN  pc1[1] < pd1[1] \/ (pc1[1] = pd1[1] /\ pc1[2] < pd1[2])

\* C29: getRelatedTags returns children of the source tags only (a source
\* tag without a tag_graph row contributes nothing), each once, in the order
\* of first discovery, and the first maxTags (50) of them when there are more.
C29_RelatedTagsAreFirstChildren ==
    RelatedTagsRead =>
        /\ \A a \in DOMAIN relatedTags : relatedTags[a] \in AllChildren
        /\ \A a \in DOMAIN relatedTags : \A b \in DOMAIN relatedTags :
             a < b => relatedTags[a] # relatedTags[b]
        /\ \A a \in 1..(Len(relatedTags) - 1) :
             DiscoveredBefore(relatedTags[a], relatedTags[a + 1])
        /\ Len(relatedTags) = Min(Cardinality(AllChildren), RelatedTagsMax)
        /\ \A c \in AllChildren \ SeqToSet(relatedTags) :
             DiscoveredBefore(relatedTags[Len(relatedTags)], c)

\* two source tags have rows with more than 50 distinct children, some in
\* both rows: the result is the first 50
C29_Witness ==
    /\ RelatedTagsRead
    /\ Cardinality(Sourced) = 2
    /\ Cardinality(AllChildren) > RelatedTagsMax
    /\ \E c \in AllChildren : \A i \in Sourced : PlacesIn(RowOf(i), c) # {}
    /\ Len(relatedTags) = RelatedTagsMax

-----------------------------------------------------------------------------
(* The scores of a run *)

\* computeProductScores has returned and the run has not failed since
Scored ==
    \/ run.pc \in { "tags", "graph", "saveGraph", "complete", "resolved" }
    \/ RunCompleted

\* C30: after scoring, the merchant_score of every product of the shop is
\* 1.0 when its stock is above 50, 0.7 when above 20 and at most 50, 0.4 when
\* above 0 and at most 20, 0.1 when 0 or less, and its purchase_score is at
\* least 0.5 and less than 1.0 (scores in hundredths).
C30_ScoresFollowStock ==
    Scored =>
        \A id \in ShopRows :
            LET stock == products[id].stock
                merchant == products[id].merchant_score
            IN  /\ stock > 50 => merchant = 100
                /\ (20 < stock /\ stock <= 50) => merchant = 70
                /\ (0 < stock /\ stock <= 20) => merchant = 40
                /\ stock <= 0 => merchant = 10
                /\ 50 <= products[id].purchase_score
                /\ products[id].purchase_score < 100

\* the shop has products with a stock on each threshold and just above it,
\* scored 0.1, 0.4, 0.4, 0.7, 0.7 and 1.0
C30_Witness ==
    /\ Scored
    /\ \A stock \in { 0, 1, 20, 21, 50, 51 } :
         \E id \in ShopRows : products[id].stock = stock
    /\ \E id \in ShopRows : products[id].stock = 50 /\ products[id].merchant_score = 70
    /\ \E id \in ShopRows : products[id].stock = 20 /\ products[id].merchant_score = 40
    /\ \E id \in ShopRows : products[id].stock = 0 /\ products[id].merchant_score = 10
    /\ \E id \in ShopRows : products[id].purchase_score = 50

-----------------------------------------------------------------------------
(* The stock of a product *)

\* the units in stock of the variants, one pair per unit; a variant without
\* inventory_quantity has none
Units(variants) ==
    UNION { { << k, u >> : u \in 1..variants[k].inventory_quantity } :
              k \in { j \in DOMAIN variants : "inventory_quantity" \in DOMAIN variants[j] } }

\* saveProductsWithData has returned and the run has not failed since
Saved ==
    \/ run.pc \in { "scores", "tags", "graph", "saveGraph", "complete", "resolved" }
    \/ RunCompleted

\* C31: after the catalog load the stock of every product is the sum of the
\* inventory_quantity of its variants, a variant without a quantity counting
\* as 0, and that sum is the stock of the row the run stores.
C31_StockIsSumOfVariants ==
    /\ run.products # << >> =>
         /\ Len(run.products) = Len(products_json)
         /\ \A i \in DOMAIN run.products :
              run.products[i].stock = Cardinality(Units(products_json[i].variants))
    /\ Saved =>
         \A i \in DOMAIN products_json :
             /\ products_json[i].id \in DOMAIN products
             /\ products[products_json[i].id].stock =
                    Cardinality(Units(products_json[i].variants))

\* the rows are saved: product 2 has two variants in stock and one without
\* a quantity, and is stored with the stock of the two
C31_Witness ==
    /\ Saved
    /\ \E i \in DOMAIN products_json :
         LET v == products_json[i].variants
         IN  /\ \E k \in DOMAIN v : "inventory_quantity" \notin DOMAIN v[k]
             /\ Cardinality({ k \in DOMAIN v : "inventory_quantity" \in DOMAIN v[k]
                                                /\ v[k].inventory_quantity > 0 }) = 2
             /\ products[products_json[i].id].stock = 50

-----------------------------------------------------------------------------
(* The priority order of the oracle backends *)

\* the flag reads true, in any letter case
FlagIsTrue(v) ==
    /\ v.set
    /\ Len(v.chars) = 4
    /\ v.chars[1] \in { "t", "T" }
    /\ v.chars[2] \in { "r", "R" }
    /\ v.chars[3] \in { "u", "U" }
    /\ v.chars[4] \in { "e", "E" }

NonBlank(v) == v.set /\ \E i \in DOMAIN v.chars : v.chars[i] \notin WhiteSpace

NonEmpty(v) == v.set /\ Len(v.chars) > 0

\* C32: backend resolution follows the priority SDK-mode flag > dedicated API
\* key > gateway key: with USE_NEUROLINK true the SDK is selected whatever keys
\* are set; otherwise a non-blank RECOMMENDATIONS_API_KEY selects the direct
\* API with that key; otherwise a non-empty GRID_AI_API_KEY selects the
\* gateway with that key; if none resolves, resolution raises an error.
C32_BackendPriority ==
    apiConfig # Unresolved =>
      IF FlagIsTrue(env.USE_NEUROLINK)
      THEN apiConfig.outcome = "returned" /\ apiConfig.useNeurolink
      ELSE IF NonBlank(env.RECOMMENDATIONS_API_KEY)
      THEN /\ apiConfig.outcome = "returned" /\ ~apiConfig.useNeurolink
           /\ apiConfig.url = GEMINI_URL
           /\ apiConfig.apiKey = env.RECOMMENDATIONS_API_KEY.chars
      ELSE IF NonEmpty(env.GRID_AI_API_KEY)
      THEN /\ apiConfig.outcome = "returned" /\ ~apiConfig.useNeurolink
           /\ apiConfig.url = GRID_AI_URL
           /\ apiConfig.apiKey = env.GRID_AI_API_KEY.chars
      ELSE apiConfig.outcome = "threw"

\* the SDK selected although both keys are set
C32_Witness ==
    /\ apiConfig.outcome = "returned" /\ apiConfig.useNeurolink
    /\ NonBlank(env.RECOMMENDATIONS_API_KEY)
    /\ NonEmpty(env.GRID_AI_API_KEY)

-----------------------------------------------------------------------------
(* The oracle is called once and never retried *)

\* the call of the ranking oracle failed: it threw or answered outside 2xx
RankCallFailed == oracle.backend # "none" /\ oracle.call \in { "threw", "non2xx" }

\* C33: the ranking oracle is invoked at most once per recommendation request
\* and at most once per tag-graph build; after a failed invocation it is never
\* invoked again for that request or build: the failed call is the only one.
C33_OracleCalledAtMostOnce ==
    /\ rankCalls <= 1
    /\ graphCalls <= 1
    /\ RankCallFailed => rankCalls = 1
    /\ run.graphOutcome = "failed" => graphCalls = 1
    /\ (pc = "done" /\ path = "success") => rankCalls = 1

\* a run over after the one call of its tag-graph build, and then a request
\* answered from the fallback after its one call failed
C33_Witness ==
    /\ RunOver /\ run.graphOutcome # "none" /\ graphCalls = 1
    /\ pc = "done" /\ path = "fallback" /\ RankCallFailed /\ rankCalls = 1

-----------------------------------------------------------------------------
(* Requests never starve the pool *)

\* every client of the pool is held by a request that waits for another one
PoolStarved ==
    /\ InUse(requests) = poolSize
    /\ \A r \in RequestNames :
         requests[r].client => requests[r].pc = "tagConnect"

\* C34: with a pool of any finite size, concurrently running recommendation
\* requests never reach a state in which every pooled connection is held by
\* a request that is itself waiting to acquire a further connection.
C34_PoolNeverStarved == ~PoolStarved

-----------------------------------------------------------------------------
(* A run writes the rows of its own shop only *)

\* the tag_graph entry of a tag is the same before and after the step
SameEntry(tag) ==
    /\ tag \in DOMAIN tag_graph <=> tag \in DOMAIN tag_graph'
    /\ tag \in DOMAIN tag_graph => tag_graph'[tag] = tag_graph[tag]

\* C35: a precomputation run for shop X leaves unchanged every product row
\* that belongs to another shop Y (its shop_id included) and every tag_graph
\* entry that Y's recommendations read, that is the entries of the tags of
\* Y's products: no step of the run changes them.
C35_OtherShopsUntouched ==
    [][ \A id \in DOMAIN products :
          (run.pc # "none" /\ products[id].shop_id # run.shop) =>
            /\ id \in DOMAIN products'
            /\ products'[id] = products[id]
            /\ SameEntry(products[id].tags) ]_vars

-----------------------------------------------------------------------------
(* A request reads the rows of its own shop only *)

\* the rows of the request's shop among the requested ids
OwnSources ==
    { products[id] : id \in { i \in SeqToSet(productIds) \cap DOMAIN products :
                                products[i].shop_id = shopId } }

\* the source products that are rows of the request's shop, in the order read
OwnSourceSeq ==
    LET Own(row) == row.shop_id = shopId
    IN  SelectSeq(sourceProducts, Own)

\* C36: the result of a recommendation request for shop S depends only on the
\* product rows whose shop_id is S: the source products it resolves are the
\* rows of S among the requested ids, it answers "No products found" exactly
\* when S has none of them, and its candidates carry tags related to the tags
\* of those rows, so that rows of other shops change none of the three.
C36_OnlyOwnShopRowsRead ==
    /\ pc \in { "step2", "step2query", "step3", "step4", "parse", "done" } =>
         SeqToSet(sourceProducts) = OwnSources
    /\ (pc = "failed" /\ fault = "none" /\ error = "No products found for given IDs") =>
         OwnSources = {}
    /\ pc \in { "step4", "parse", "done" } =>
         \A i \in DOMAIN candidateProducts :
           /\ candidateProducts[i].shop_id = shopId
           /\ candidateProducts[i].tags \in
                SeqToSet(getRelatedTags(tag_graph, SourceTags(OwnSourceSeq), RelatedTagsMax))

-----------------------------------------------------------------------------
(* Concurrent runs and their tracker rows *)

\* a row that changes in a step is the row of the run that took the step
OnlyOwnRowWritten ==
    \A id \in DOMAIN process_tracker :
      process_tracker'[id] # process_tracker[id] =>
        \E k \in RunNames : runs'[k] # runs[k] /\ runs[k].trackerId = id

\* a run that is over and has a row left it completed or failed
EveryRowTerminal ==
    \A k \in RunNames :
      (runs[k].pc = "ended" /\ runs[k].trackerId # 0) =>
        process_tracker[runs[k].trackerId].status \in { "completed", "failed" }

\* C37: when several precomputation runs execute concurrently, on the same
\* shop or on different shops, each run writes status and product_count only
\* to its own tracker row, so that the failure or completion of one run never
\* changes the row of another, and every run's row reaches its own terminal
\* status.
C37_RunsKeepToTheirRows ==
    /\ [][OnlyOwnRowWritten]_vars
    /\ []EveryRowTerminal

-----------------------------------------------------------------------------
(* The requested types do not change the answer *)

\* C38: the output of getRecommendations does not depend on the
\* recommendation_type argument: whether the request asks for only 'upsell',
\* only 'crosssell', both or sends no type, the upsell and crosssell lists are
\* the ones the store, the oracle's answer and the product ids determine.
C38_TypeIsIgnored ==
    pc = "done" =>
      result = CASE path = "success" -> OracleResult(oracle, candidateProducts)
                 [] path = "fallback" -> FallbackResult(sourceProducts, candidateProducts)
                 [] OTHER -> EmptyResult

\* a request for only 'upsell' answered with cross-sells as well
C38_Witness ==
    /\ pc = "done" /\ path = "success"
    /\ recommendationType(recommendation_type) = << "upsell" >>
    /\ result.upsell # << >>
    /\ result.crosssell # << >>

-----------------------------------------------------------------------------
(* Shutdown closes the pool once *)

\* C39: for any sequence of SIGTERM and SIGINT signals the storage pool is
\* closed at most once: the first signal starts the shutdown, which closes the
\* pool and exits with code 0, also when closing raised an error; a signal
\* received while the shutdown is in progress exits at once with code 1
\* without closing the pool again; nothing else exits the process.
C39_PoolClosedOnce ==
    /\ proc.poolEnds <= 1
    /\ proc.poolEnds = (IF proc.received = << >> THEN 0 ELSE 1)
    /\ proc.isShuttingDown <=> proc.received # << >>
    /\ Len(proc.received) <= 2
    /\ Len(proc.received) = 2 => proc.pc = "exited" /\ proc.exitCode = << 1 >>
    /\ proc.pc = "exited" =>
         proc.exitCode = (IF Len(proc.received) = 1 THEN << 0 >> ELSE << 1 >>)
    /\ proc.pc # "exited" => proc.exitCode = << >>
    /\ proc.closeError => proc.exitCode = << 0 >>

\* a second signal, of the other kind, arrived during the shutdown: exit code
\* 1, the pool closed once, a run still in flight
C39_Witness ==
    /\ proc.received = << "SIGTERM", "SIGINT" >>
    /\ proc.pc = "exited" /\ proc.exitCode = << 1 >>
    /\ proc.poolEnds = 1
    /\ \E k \in RunNames : runs[k].pc \notin { "none", "ended" }

====
